---- MODULE Spec2Model ----
(***************************************************************************)
(* improvwf: the status-log reconciler of improv.py and the daemons that   *)
(* drive it.  A daemon (run_worker) launches studies and polls them; every *)
(* status change is handed to _append_to_history_with_pending_logging,     *)
(* which merges it with the daemon's pending log actions and commits the   *)
(* result to a history file shared with sibling daemons and with readers   *)
(* of the history (get_history), all of them using one advisory lock.      *)
(***************************************************************************)
EXTENDS Naturals, Integers, Sequences, FiniteSets, TLC

\* --------------------------------------------------------------- bounds
\* Studies launched in one run, over all daemons.
MaxLaunch == 2
\* Study request files found in the inbox in one cycle.
MaxBatch == 2

\* ------------------------------------------------------------ constants
Daemons == {"w1", "w2"}
\* History destinations: the global history file.
Dests == {"hist"}
\* Request ids and run descriptors the study request files carry.
Rids == {"r1", "r2"}
Descs == {"d1", "d2"}
StudyFiles ==
    { [rid |-> "r1", desc |-> "d1"],
      [rid |-> "r1", desc |-> "d2"],
      [rid |-> "r2", desc |-> "d1"] }
\* Python's None, and the parsed content of a results.yaml.
None == "None"
Results == {"x1"}

IMPROV_STATUS_STRINGS == <<"QUEUED", "RUNNING", "FINISHED", "FAILED">>

\* list.index
StatusIndex(s) == CHOOSE i \in 1..Len(IMPROV_STATUS_STRINGS) : IMPROV_STATUS_STRINGS[i] = s

\* A study tuple (id, description, status, result).
Tup(rid, desc, status, result) ==
    [rid |-> rid, desc |-> desc, status |-> status, result |-> result]

\* ------------------------------------------------- precedence and identity
\* A variant in which a result counts only when the status is not earlier.
PrecedenceResultNeedsStatus(tup_a, tup_b) ==
    IF tup_a.rid # tup_b.rid THEN FALSE
    ELSE LET status_string_dominance ==
                 StatusIndex(tup_b.status) > StatusIndex(tup_a.status)
             results_dominance ==
                 /\ (tup_b.result # None) /\ (tup_a.result = None)
                 /\ StatusIndex(tup_b.status) >= StatusIndex(tup_a.status)
         IN  results_dominance \/ status_string_dominance

\* True iff tup_b has precedence over tup_a.
_study_tup_g_precedence(tup_a, tup_b) ==
    IF tup_a.rid # tup_b.rid THEN FALSE
    ELSE LET status_string_dominance ==
                 StatusIndex(tup_b.status) > StatusIndex(tup_a.status)
             results_dominance ==
                 (tup_b.result # None) /\ (tup_a.result = None)
         IN  results_dominance \/ status_string_dominance

\* The call above logs an error when the ids match and the descriptions differ.
DescriptionConflict(tup_a, tup_b) ==
    tup_a.rid = tup_b.rid /\ tup_a.desc # tup_b.desc

_study_tup_identity(tup_a, tup_b) ==
    /\ tup_a.rid = tup_b.rid
    /\ tup_a.desc = tup_b.desc
    /\ tup_a.status = tup_b.status
    /\ ((tup_a.result = None /\ tup_b.result = None) \/ tup_a.result = tup_b.result)

\* ------------------------------------------------------ _elim_from_stat_dict
\* The inner loop's test on j: tup_j dominates tup_i, or is identical and not
\* yet eliminated.
ElimHit(dict_a, i, j, to_eliminate_a) ==
    \/ _study_tup_g_precedence(dict_a[i], dict_a[j])
    \/ (_study_tup_identity(dict_a[i], dict_a[j]) /\ j \notin to_eliminate_a)

\* The value of append_flag for index i once both loops are through.
ElimFlag(dict_a, dict_b, i, to_eliminate_a) ==
    \/ \E j \in (1..Len(dict_a)) \ {i} : ElimHit(dict_a, i, j, to_eliminate_a)
    \/ \E k \in 1..Len(dict_b) :
           \/ _study_tup_g_precedence(dict_a[i], dict_b[k])
           \/ _study_tup_identity(dict_a[i], dict_b[k])

RECURSIVE ToEliminate(_, _, _, _)
ToEliminate(dict_a, dict_b, i, to_eliminate_a) ==
    IF i > Len(dict_a) THEN to_eliminate_a
    ELSE ToEliminate(dict_a, dict_b, i + 1,
                     IF ElimFlag(dict_a, dict_b, i, to_eliminate_a)
                     THEN to_eliminate_a \cup {i}
                     ELSE to_eliminate_a)

RECURSIVE KeepFrom(_, _, _)
KeepFrom(dict_a, to_eliminate_a, i) ==
    IF i > Len(dict_a) THEN <<>>
    ELSE (IF i \in to_eliminate_a THEN <<>> ELSE <<dict_a[i]>>)
         \o KeepFrom(dict_a, to_eliminate_a, i + 1)

_elim_from_stat_dict(dict_a, dict_b) ==
    KeepFrom(dict_a, ToEliminate(dict_a, dict_b, 1, {}), 1)

\* The indices j the inner loop visits for i before it breaks.
ElimVisited(dict_a, i, to_eliminate_a) ==
    { j \in (1..Len(dict_a)) \ {i} :
        \A j2 \in (1..(j - 1)) \ {i} : ~ElimHit(dict_a, i, j2, to_eliminate_a) }

\* Whether a run of _elim_from_stat_dict logs the "same ID but different
\* descriptions" error.
RECURSIVE ElimLogsConflict(_, _, _, _)
ElimLogsConflict(dict_a, dict_b, i, to_eliminate_a) ==
    IF i > Len(dict_a) THEN FALSE
    ELSE \/ \E j \in ElimVisited(dict_a, i, to_eliminate_a) :
                DescriptionConflict(dict_a[i], dict_a[j])
         \/ \E k \in 1..Len(dict_b) : DescriptionConflict(dict_a[i], dict_b[k])
         \/ ElimLogsConflict(dict_a, dict_b, i + 1,
                             IF ElimFlag(dict_a, dict_b, i, to_eliminate_a)
                             THEN to_eliminate_a \cup {i}
                             ELSE to_eliminate_a)

\* ------------------------------------------------------ pending log actions
\* pending_log_actions.get(history_dest_str, empty)
PendingOf(pending_log_actions, history_dest_str) ==
    IF history_dest_str \in DOMAIN pending_log_actions
    THEN pending_log_actions[history_dest_str]
    ELSE <<>>

_get_latest_logging_actions(pending_log_actions, history_dest_str, dictionary_of_statuses) ==
    _elim_from_stat_dict(PendingOf(pending_log_actions, history_dest_str),
                         dictionary_of_statuses)
    \o dictionary_of_statuses

\* A variant that, after a failed commit, adds the batch to the pending list
\* as it was, without pruning the entries the batch makes redundant.
UpdatePendingKeepsRedundant(pending_log_actions, retcode_from_append, history_dest_str, dictionary_of_statuses) ==
    LET dos == _elim_from_stat_dict(dictionary_of_statuses, <<>>)
        prior == PendingOf(pending_log_actions, history_dest_str)
        new == IF retcode_from_append = 1
               THEN prior \o dos
               ELSE _elim_from_stat_dict(prior, dos)
    IN  IF new = <<>>
        THEN [d \in DOMAIN pending_log_actions \ {history_dest_str}
                  |-> pending_log_actions[d]]
        ELSE [d \in DOMAIN pending_log_actions \cup {history_dest_str}
                  |-> IF d = history_dest_str THEN new ELSE pending_log_actions[d]]

\* A variant that, after a failed commit, does not put the attempted batch back.
UpdatePendingForgetsBatch(pending_log_actions, retcode_from_append, history_dest_str, dictionary_of_statuses) ==
    LET dos == _elim_from_stat_dict(dictionary_of_statuses, <<>>)
        new == _elim_from_stat_dict(
                   PendingOf(pending_log_actions, history_dest_str), dos)
    IN  IF new = <<>>
        THEN [d \in DOMAIN pending_log_actions \ {history_dest_str}
                  |-> pending_log_actions[d]]
        ELSE [d \in DOMAIN pending_log_actions \cup {history_dest_str}
                  |-> IF d = history_dest_str THEN new ELSE pending_log_actions[d]]

\* A variant that prunes the pending list only when the commit failed.
UpdatePendingKeepsCommitted(pending_log_actions, retcode_from_append, history_dest_str, dictionary_of_statuses) ==
    LET dos == _elim_from_stat_dict(dictionary_of_statuses, <<>>)
        prior == PendingOf(pending_log_actions, history_dest_str)
        new == IF retcode_from_append = 1
               THEN _elim_from_stat_dict(prior, dos) \o dos
               ELSE prior
    IN  IF new = <<>>
        THEN [d \in DOMAIN pending_log_actions \ {history_dest_str}
                  |-> pending_log_actions[d]]
        ELSE [d \in DOMAIN pending_log_actions \cup {history_dest_str}
                  |-> IF d = history_dest_str THEN new ELSE pending_log_actions[d]]

_update_pending_log_actions(pending_log_actions, retcode_from_append, history_dest_str, dictionary_of_statuses) ==
    LET dos == _elim_from_stat_dict(dictionary_of_statuses, <<>>)
        pruned == _elim_from_stat_dict(
                      PendingOf(pending_log_actions, history_dest_str), dos)
        new == IF retcode_from_append = 1 THEN pruned \o dos ELSE pruned
    IN  IF new = <<>>
        THEN [d \in DOMAIN pending_log_actions \ {history_dest_str}
                  |-> pending_log_actions[d]]
        ELSE [d \in DOMAIN pending_log_actions \cup {history_dest_str}
                  |-> IF d = history_dest_str THEN new ELSE pending_log_actions[d]]

\* ------------------------------------------------------------ history file
NoEntry == [rid |-> "none", desc |-> "none", status |-> "none", result |-> None]
\* A history file that does not exist, and the {"history": {}} a creation writes.
NoFile == [exists |-> FALSE, history |-> [r \in Rids |-> NoEntry]]
EmptyHistory == [exists |-> TRUE, history |-> [r \in Rids |-> NoEntry]]

\* The append loop: each tuple OVERWRITES the entry of its request id.
RECURSIVE AppendLoop(_, _, _)
AppendLoop(history, tups, i) ==
    IF i > Len(tups) THEN history
    ELSE AppendLoop([history EXCEPT ![tups[i].rid] = tups[i]], tups, i + 1)

\* ------------------------------------------------------------------- state
VARIABLES
    hist,       \* hist[d]: the history file of destination d
    lock,       \* lock[d]: holder of d's .history.lock: "free", "reader" or a daemon
    pending,    \* pending[dm]: the daemon's pending_logs, keyed by destination
    running,    \* running[dm]: running_maestros, in insertion order
    pc,         \* pc[dm]: where the daemon is in its current logging call
    call,       \* call[dm]: the arguments and locals of that call
    nlaunch     \* studies launched so far

\* The state of the logging daemons.
logVars == <<hist, lock, pending, running, pc, call, nlaunch>>

\* A call of _study_tup_g_precedence on its own: the arguments, where the call
\* is, what it returned and which errors it logged.
VARIABLES tup_a, tup_b, prec_pc, prec_ret, prec_log

precVars == <<tup_a, tup_b, prec_pc, prec_ret, prec_log>>

\* A call of DAO.study_has_been_run: the record store (the records and the
\* "requests" relationships), the arguments, where the call is, the locals
\* the precheck hands on, and what the call returned.
VARIABLES recs, rels, proposed_studies, agent_id, quit_at, equality_params,
          shbr_pc, might_have_been_run, existing_to_proposed_map, shbr_ret

detVars == <<recs, rels, proposed_studies, agent_id, quit_at, equality_params,
             shbr_pc, might_have_been_run, existing_to_proposed_map, shbr_ret>>

\* One worker's main loop (run_worker) with all its history destinations:
\* the inbox and outbox, the list of request files found and the index of
\* the one being launched, running_maestros in insertion order, the launched
\* processes and their results.yaml, requests launched in this call, the
\* poll results and the entries of the last monitor_and_log, the history
\* destinations and which are configured, pending_logs, where the loop is,
\* the cycles completed, and where each request file was when its process
\* was started.
VARIABLES inbox, outbox, study_files, sfi, running_maestros, Popen, results_yaml,
          request_ids_launching, polled, keys_to_pop, histories, configured,
          pending_logs, loop_pc, cycles, started_from

loopVars == <<inbox, outbox, study_files, sfi, running_maestros, Popen, results_yaml,
              request_ids_launching, polled, keys_to_pop, histories, configured,
              pending_logs, loop_pc, cycles, started_from>>

\* run_worker's own state: whether the cancel and terminate sentinel files
\* exist, the DAO and its connection, whether a database url was given,
\* last_was_decision, whether decision_study.yaml exists; and, kept for the
\* properties: how the acquisition of each sentinel's lock went in this cycle
\* and the studies maestro cancel was issued for, how often each study was
\* launched and removed, the paths the termination drain has written or tried
\* to write to, whether this cycle started the decision study, what the
\* cycle found when it looked (last_was_decision before the inbox was listed,
\* and at the decision rule whether nothing ran and last_was_decision), and
\* how often the decision study was started since a request was last found.
VARIABLES cancel_lock_path, term_lock_path, worker_dao, worker_dao_conn,
          args_database_url, last_was_decision, decision_study_exists,
          cancel_lock, termination_lock, cancelled, launches, pops, drained,
          decided, seen, unanswered

workerVars == <<cancel_lock_path, term_lock_path, worker_dao, worker_dao_conn,
                args_database_url, last_was_decision, decision_study_exists,
                cancel_lock, termination_lock, cancelled, launches, pops, drained,
                decided, seen, unanswered>>

\* Calls followed on their own, outside a daemon.  The reconciler called on
\* one history destination with batches of any content: the pending log
\* actions, the history file, and of the last call the retcode of the append
\* and whether an incoming entry met a pending entry of its request id.
VARIABLES PendingQueue, history_path, reconciled

\* _elim_from_stat_dict called on a list alone: the list, where the call is,
\* the indices it kept and the list it returned.
VARIABLES elim_arg, elim_pc, elim_kept, elim_ret

\* A daemon's logging to the record store: the records and relationships of
\* the store, where the daemon's cycle and each of its studies is, the entry last appended
\* for each request id by a call that returned, and of the last logging call
\* the requester, the retcode and what became of the entries it appended
\* again.
VARIABLES db_recs, db_rels, db_pc, db_studies, appended, db_call

\* studies_have_been_run called with a quota: the list it was given, what is
\* left of it, the quota, the count still wanted, the list built so far and
\* where the call is.
VARIABLES study_recs, to_check, quota_not_run, num_still_needed, studies_exist,
          shr_pc

\* update_pareto called again and again on one store: the records of the
\* store, the clock, the store before the last call and the sequences the
\* last call was given.
VARIABLES pareto_recs, pareto_time, pareto_before, antigen_sequences

moreVars == <<study_recs, to_check, quota_not_run, num_still_needed, studies_exist,
              shr_pc, pareto_recs, pareto_time, pareto_before, antigen_sequences>>

utilVars == <<PendingQueue, history_path, reconciled,
              elim_arg, elim_pc, elim_kept, elim_ret,
              db_recs, db_rels, db_pc, db_studies, appended, db_call, moreVars>>

\* Nothing looked at yet in this cycle.
NotSeen == [flag_at_scan |-> FALSE, idle |-> FALSE, flag |-> FALSE]

\* What the logging daemons leave alone.
nonLogVars == <<precVars, detVars, loopVars, workerVars, utilVars>>

\* What a call of _study_tup_g_precedence on its own leaves alone, and what
\* a call of study_has_been_run leaves alone.
notPrecVars == <<logVars, detVars, loopVars, workerVars, utilVars>>
notDetVars == <<logVars, precVars, loopVars, workerVars, utilVars>>
notLoopVars == <<logVars, precVars, detVars, workerVars, utilVars>>
\* What run_worker with its sentinels and decision study leaves alone.
notWorkerVars == <<logVars, precVars, detVars, utilVars>>

vars == <<logVars, nonLogVars>>

EmptyPending == [d \in {} |-> <<>>]

\* call[dm] keeps, after the call has returned (pc[dm] = "done"), what the call
\* was given and what it did: incoming is the batch handed in, prior the
\* pending list and before the history file it found, loc_dict the batch it
\* tried to commit, retcode the result of _append_to_history; prevIncoming and
\* prevRetcode are incoming and retcode of the call before it.
NoCall == [dest |-> "none", incoming |-> <<>>, loc_dict |-> <<>>, prior |-> <<>>,
           before |-> NoFile, timedOut |-> FALSE, retcode |-> -1,
           conflictLogged |-> FALSE, prevIncoming |-> <<>>, prevRetcode |-> -1]

\* No call of _study_tup_g_precedence on its own is under way.
PrecIdle ==
    /\ tup_a = NoEntry /\ tup_b = NoEntry
    /\ prec_pc = "idle" /\ prec_ret = FALSE /\ prec_log = {}

\* No call of study_has_been_run is under way.
DetIdle ==
    /\ recs = {} /\ rels = {}
    /\ proposed_studies = <<>> /\ agent_id = None
    /\ quit_at = 0 /\ equality_params = <<>>
    /\ shbr_pc = "idle" /\ might_have_been_run = <<>>
    /\ existing_to_proposed_map = <<>> /\ shbr_ret = <<>>

\* No main loop with all destinations is being followed.
LoopIdle ==
    /\ inbox = {} /\ outbox = {} /\ study_files = <<>> /\ sfi = 0
    /\ running_maestros = <<>> /\ Popen = <<>> /\ results_yaml = <<>>
    /\ request_ids_launching = <<>> /\ polled = <<>> /\ keys_to_pop = <<>>
    /\ histories = <<>> /\ configured = {} /\ pending_logs = <<>>
    /\ loop_pc = "idle" /\ cycles = 0 /\ started_from = <<>>

\* No run_worker with sentinels and a decision study is being followed.
WorkerIdle ==
    /\ cancel_lock_path = FALSE /\ term_lock_path = FALSE
    /\ worker_dao = None /\ worker_dao_conn = None
    /\ args_database_url = FALSE
    /\ last_was_decision = FALSE /\ decision_study_exists = FALSE
    /\ cancel_lock = "absent" /\ termination_lock = "absent" /\ cancelled = {}
    /\ launches = <<>> /\ pops = <<>> /\ drained = {} /\ decided = FALSE
    /\ seen = NotSeen /\ unanswered = 0

\* No call of a utility is followed on its own.
NoReconcile == [retcode |-> -1, overlap |-> FALSE]
NoDbCall == [requester |-> None, retcode |-> -1, reappended |-> {}]

QuotaIdle ==
    /\ study_recs = <<>> /\ to_check = <<>> /\ quota_not_run = 0
    /\ num_still_needed = 0 /\ studies_exist = <<>> /\ shr_pc = "idle"

ParetoIdle ==
    /\ pareto_recs = {} /\ pareto_time = 0 /\ pareto_before = {}
    /\ antigen_sequences = <<>>

CallsIdle ==
    /\ PendingQueue = EmptyPending /\ history_path = NoFile
    /\ reconciled = NoReconcile
    /\ elim_arg = <<>> /\ elim_pc = "idle" /\ elim_kept = {} /\ elim_ret = <<>>
    /\ db_recs = {} /\ db_rels = {} /\ db_pc = "idle"
    /\ db_studies = <<>> /\ appended = <<>>
    /\ db_call = NoDbCall

UtilIdle ==
    /\ CallsIdle
    /\ QuotaIdle
    /\ ParetoIdle

\* The daemons before their first cycle, no history file written yet.
LogInit ==
    /\ hist = [d \in Dests |-> NoFile]
    /\ lock = [d \in Dests |-> "free"]
    /\ pending = [dm \in Daemons |-> EmptyPending]
    /\ running = [dm \in Daemons |-> <<>>]
    /\ pc = [dm \in Daemons |-> "idle"]
    /\ call = [dm \in Daemons |-> NoCall]
    /\ nlaunch = 0

Init ==
    /\ LogInit
    /\ PrecIdle
    /\ DetIdle
    /\ LoopIdle
    /\ WorkerIdle
    /\ UtilIdle

\* ------------------------------------------------ the logging call, in steps
\* _append_to_history_with_pending_logging up to the first look at the file:
\* the latest logging actions are computed and os.path.exists is evaluated.
BeginCall(dm, d, incoming) ==
    LET prior == PendingOf(pending[dm], d)
        loc == _get_latest_logging_actions(pending[dm], d, incoming)
    IN  /\ call' = [call EXCEPT ![dm] =
                       [dest |-> d, incoming |-> incoming, loc_dict |-> loc,
                        prior |-> prior, before |-> hist[d],
                        timedOut |-> FALSE, retcode |-> -1,
                        conflictLogged |-> ElimLogsConflict(prior, incoming, 1, {}),
                        prevIncoming |-> call[dm].incoming,
                        prevRetcode |-> call[dm].retcode]]
        /\ pc' = [pc EXCEPT ![dm] = IF hist[d].exists THEN "check" ELSE "init_acquire"]

\* The return of _append_to_history with retcode, then
\* _update_pending_log_actions.
FinishCall(dm, retcode, timedOut) ==
    LET d == call[dm].dest
        loc == call[dm].loc_dict
        dos == _elim_from_stat_dict(loc, <<>>)
    IN  /\ pending' = [pending EXCEPT ![dm] =
                          _update_pending_log_actions(pending[dm], retcode, d, loc)]
        /\ call' = [call EXCEPT ![dm].retcode = retcode,
                                ![dm].timedOut = @ \/ timedOut,
                                ![dm].conflictLogged =
                                    \/ @
                                    \/ ElimLogsConflict(loc, <<>>, 1, {})
                                    \/ ElimLogsConflict(PendingOf(pending[dm], d), dos, 1, {})]
        /\ pc' = [pc EXCEPT ![dm] = "done"]

\* The history file does not exist: the lock is acquired to create it.
InitAcquire(dm) ==
    /\ pc[dm] = "init_acquire"
    /\ lock[call[dm].dest] = "free"
    /\ lock' = [lock EXCEPT ![call[dm].dest] = dm]
    /\ pc' = [pc EXCEPT ![dm] = "init_write"]
    /\ UNCHANGED <<hist, pending, running, call, nlaunch>>
    /\ UNCHANGED nonLogVars

\* ... or the acquisition times out: the error is logged and the call goes on.
InitTimeout(dm) ==
    /\ pc[dm] = "init_acquire"
    /\ lock[call[dm].dest] \notin {"free", dm}
    /\ call' = [call EXCEPT ![dm].timedOut = TRUE]
    /\ pc' = [pc EXCEPT ![dm] = "check"]
    /\ UNCHANGED <<hist, lock, pending, running, nlaunch>>
    /\ UNCHANGED nonLogVars

\* open(history_path, "w") and the dump of {"history": {}}; the lock is released.
InitWrite(dm) ==
    /\ pc[dm] = "init_write"
    /\ hist' = [hist EXCEPT ![call[dm].dest] = EmptyHistory]
    /\ lock' = [lock EXCEPT ![call[dm].dest] = "free"]
    /\ pc' = [pc EXCEPT ![dm] = "check"]
    /\ UNCHANGED <<pending, running, call, nlaunch>>
    /\ UNCHANGED nonLogVars

\* if os.path.exists(history_path) and len(request_id_list) > 0: ... else return 0
Check(dm) ==
    /\ pc[dm] = "check"
    /\ IF hist[call[dm].dest].exists /\ Len(call[dm].loc_dict) > 0
       THEN /\ pc' = [pc EXCEPT ![dm] = "append_acquire"]
            /\ UNCHANGED <<pending, call>>
       ELSE FinishCall(dm, 0, FALSE)
    /\ UNCHANGED <<hist, lock, running, nlaunch>>
    /\ UNCHANGED nonLogVars

AppendAcquire(dm) ==
    /\ pc[dm] = "append_acquire"
    /\ lock[call[dm].dest] = "free"
    /\ lock' = [lock EXCEPT ![call[dm].dest] = dm]
    /\ pc' = [pc EXCEPT ![dm] = "append_write"]
    /\ UNCHANGED <<hist, pending, running, call, nlaunch>>
    /\ UNCHANGED nonLogVars

\* except Timeout: return 1
AppendTimeout(dm) ==
    /\ pc[dm] = "append_acquire"
    /\ lock[call[dm].dest] \notin {"free", dm}
    /\ FinishCall(dm, 1, TRUE)
    /\ UNCHANGED <<hist, lock, running, nlaunch>>
    /\ UNCHANGED nonLogVars

\* Under the lock: load the file, overwrite the entries, write the file back.
AppendWrite(dm) ==
    /\ pc[dm] = "append_write"
    /\ hist' = [hist EXCEPT ![call[dm].dest].history =
                   AppendLoop(@, call[dm].loc_dict, 1)]
    /\ lock' = [lock EXCEPT ![call[dm].dest] = "free"]
    /\ FinishCall(dm, 0, FALSE)
    /\ UNCHANGED <<running, nlaunch>>
    /\ UNCHANGED nonLogVars

\* ------------------------------------------------------------- the daemon
\* running_maestros[request_id] = {...}
RunPut(run, f) ==
    IF \E i \in 1..Len(run) : run[i].rid = f.rid
    THEN [i \in 1..Len(run) |-> IF run[i].rid = f.rid THEN f ELSE run[i]]
    ELSE Append(run, f)

RECURSIVE RunPutAll(_, _, _)
RunPutAll(run, files, i) ==
    IF i > Len(files) THEN run
    ELSE RunPutAll(RunPut(run, files[i]), files, i + 1)

InboxBatches == UNION { [1..n -> StudyFiles] : n \in 1..MaxBatch }

\* launch_requested_studies: every request file found is launched and logged
\* as RUNNING with result None.
launch_requested_studies(dm) ==
    /\ pc[dm] \in {"idle", "done"}
    /\ \E study_request_files \in InboxBatches :
          /\ nlaunch + Len(study_request_files) <= MaxLaunch
          /\ nlaunch' = nlaunch + Len(study_request_files)
          /\ running' = [running EXCEPT ![dm] = RunPutAll(@, study_request_files, 1)]
          /\ \E d \in Dests :
                BeginCall(dm, d,
                    [i \in 1..Len(study_request_files) |->
                        Tup(study_request_files[i].rid, study_request_files[i].desc,
                            "RUNNING", None)])
    /\ UNCHANGED <<hist, lock, pending>>
    /\ UNCHANGED nonLogVars

\* The poll results of the running studies: None (still running), exit 0 with
\* a results.yaml, or a failure.
PollOutcomes(dm) == [1..Len(running[dm]) -> {"None", "FINISHED", "FAILED"}]

RECURSIVE PoppedTups(_, _, _, _)
PoppedTups(run, outcome, result, i) ==
    IF i > Len(run) THEN <<>>
    ELSE (IF outcome[i] = "None" THEN <<>>
          ELSE <<Tup(run[i].rid, run[i].desc, outcome[i],
                     IF outcome[i] = "FINISHED" THEN result ELSE None)>>)
         \o PoppedTups(run, outcome, result, i + 1)

RECURSIVE StillRunning(_, _, _)
StillRunning(run, outcome, i) ==
    IF i > Len(run) THEN <<>>
    ELSE (IF outcome[i] = "None" THEN <<run[i]>> ELSE <<>>)
         \o StillRunning(run, outcome, i + 1)

\* monitor_and_log: finished studies are logged and removed; the call is made
\* in every cycle, with empty lists when nothing finished.
monitor_and_log(dm) ==
    /\ pc[dm] \in {"idle", "done"}
    /\ \E outcome \in PollOutcomes(dm), result \in Results :
          /\ running' = [running EXCEPT ![dm] = StillRunning(@, outcome, 1)]
          /\ \E d \in Dests :
                BeginCall(dm, d, PoppedTups(running[dm], outcome, result, 1))
    /\ UNCHANGED <<hist, lock, pending, nlaunch>>
    /\ UNCHANGED nonLogVars

\* ------------------------------------------------------- history readers
\* get_history: a decision maker reads the history under the same lock.
ReaderAcquire(d) ==
    /\ lock[d] = "free"
    /\ lock' = [lock EXCEPT ![d] = "reader"]
    /\ UNCHANGED <<hist, pending, running, pc, call, nlaunch>>
    /\ UNCHANGED nonLogVars

ReaderRelease(d) ==
    /\ lock[d] = "reader"
    /\ lock' = [lock EXCEPT ![d] = "free"]
    /\ UNCHANGED <<hist, pending, running, pc, call, nlaunch>>
    /\ UNCHANGED nonLogVars

DaemonStep(dm) ==
    \/ launch_requested_studies(dm)
    \/ monitor_and_log(dm)
    \/ InitAcquire(dm)
    \/ InitTimeout(dm)
    \/ InitWrite(dm)
    \/ Check(dm)
    \/ AppendAcquire(dm)
    \/ AppendTimeout(dm)
    \/ AppendWrite(dm)

\* One daemon and the readers of its history file.
Next ==
    \/ DaemonStep("w1")
    \/ \E d \in Dests : ReaderAcquire(d)
    \/ \E d \in Dests : ReaderRelease(d)

Spec == Init /\ [][Next]_vars

\* Sibling daemons sharing the history file.
NextSiblings ==
    \E dm \in Daemons : DaemonStep(dm)

SpecSiblings == Init /\ [][NextSiblings]_vars

TypeOK ==
    /\ \A d \in Dests : lock[d] \in {"free", "reader"} \cup Daemons
    /\ \A dm \in Daemons : pc[dm] \in {"idle", "init_acquire", "init_write", "check",
                                       "append_acquire", "append_write", "done"}
    /\ nlaunch \in 0..MaxLaunch

\* The daemon keeps cycling (run_worker's while True with its sleep), a reader
\* lets go of the lock, and a daemon that finds the lock free again and again
\* gets it.
FairSpec ==
    /\ Spec
    /\ WF_vars(DaemonStep("w1"))
    /\ \A d \in Dests : WF_vars(ReaderRelease(d))
    /\ SF_vars(InitAcquire("w1"))
    /\ SF_vars(AppendAcquire("w1"))

\* ------------------------------------------------------------ vocabulary
Range(s) == { s[i] : i \in DOMAIN s }
RidsOf(s) == { s[i].rid : i \in DOMAIN s }
Done(dm) == pc[dm] = "done"
\* The daemon's pending list for the destination of its last call.
PendingNow(dm) == PendingOf(pending[dm], call[dm].dest)
\* The history file of the destination of the daemon's last call.
HistNow(dm) == hist[call[dm].dest]
\* Every tuple a daemon can hand to the reconciler.
DaemonTups ==
    { Tup(f.rid, f.desc, "RUNNING", None) : f \in StudyFiles }
    \cup { Tup(f.rid, f.desc, "FAILED", None) : f \in StudyFiles }
    \cup { Tup(f[1].rid, f[1].desc, "FINISHED", f[2]) : f \in StudyFiles \X Results }

\* ------------------------------------------------------------------- C1
\* C1: once (r, FINISHED, result) is committed to a destination, a later commit
\* of a call whose incoming batch contains (r, RUNNING, None) does not change
\* the destination's entry for r.
C1_NoRegression ==
    [][\A dm \in Daemons : \A r \in Rids :
          ( /\ pc[dm] = "append_write"
            /\ pc'[dm] = "done"
            /\ hist[call[dm].dest].history[r].status = "FINISHED"
            /\ \E i \in DOMAIN call[dm].incoming :
                  /\ call[dm].incoming[i].rid = r
                  /\ call[dm].incoming[i].status = "RUNNING"
                  /\ call[dm].incoming[i].result = None )
          => hist'[call[dm].dest].history[r] = hist[call[dm].dest].history[r]]_vars

C3_TimeoutDefers ==
    \A dm \in Daemons :
        (Done(dm) /\ call[dm].timedOut /\ call[dm].loc_dict # <<>>) =>
            /\ call[dm].retcode = 1
            /\ Range(_elim_from_stat_dict(call[dm].loc_dict, <<>>))
                   \subseteq Range(PendingNow(dm))

\* ------------------------------------------------------------------- C4
\* e is in the batch of the daemon's current or last logging call.
Handed(e) == \E dm \in Daemons : pc[dm] # "idle" /\ e \in Range(call[dm].incoming)
\* The destination's entry of e's request id has e's status and result, or
\* dominates e.
Durable(e) ==
    \A d \in Dests :
        /\ hist[d].exists
        /\ hist[d].history[e.rid] # NoEntry
        /\ \/ /\ hist[d].history[e.rid].status = e.status
              /\ hist[d].history[e.rid].result = e.result
           \/ _study_tup_g_precedence(e, hist[d].history[e.rid])

\* C4: when from some point on no reader keeps the daemon from the lock, so
\* that its commit attempts get through, every entry handed to the reconciler
\* is eventually held by the destination, or an entry of the same request id
\* that dominates it is.
C4_EventuallyDurable ==
    \A e \in DaemonTups :
        (<>[](\A d \in Dests : lock[d] # "reader")) => (Handed(e) ~> Durable(e))

\* ------------------------------------------------------------------- C5
\* C5: when two daemons have appended entries of different request ids to the
\* same history file and both appends returned success, no lock acquisition
\* having timed out, the file holds an entry for every request id of both.
C5_ConcurrentAppendsKept ==
    ( /\ Done("w1") /\ Done("w2")
      /\ call["w1"].retcode = 0 /\ call["w2"].retcode = 0
      /\ ~call["w1"].timedOut /\ ~call["w2"].timedOut
      /\ call["w1"].loc_dict # <<>> /\ call["w2"].loc_dict # <<>>
      /\ RidsOf(call["w1"].loc_dict) \cap RidsOf(call["w2"].loc_dict) = {} )
    => \A r \in RidsOf(call["w1"].loc_dict) \cup RidsOf(call["w2"].loc_dict) :
           hist["hist"].exists /\ hist["hist"].history[r] # NoEntry

\* ------------------------------------------------------------------- C6
\* p dominates i and i does not dominate p.
StrictlyDominates(p, i) ==
    _study_tup_g_precedence(i, p) /\ ~_study_tup_g_precedence(p, i)

\* C6: when the pending list held an entry p that dominates an incoming entry
\* i of the same request id and descriptors, and no incoming entry dominates
\* p, then after a successful commit the destination's entry is p, and after
\* a failed one p is still pending.
C6_PendingDominantKept ==
    \A dm \in Daemons :
        Done(dm) =>
            \A p \in Range(call[dm].prior) : \A i \in Range(call[dm].incoming) :
                ( /\ p.rid = i.rid /\ p.desc = i.desc
                  /\ StrictlyDominates(p, i)
                  /\ \A j \in Range(call[dm].incoming) : ~_study_tup_g_precedence(p, j) )
                => /\ call[dm].retcode = 0 => HistNow(dm).history[p.rid] = p
                   /\ call[dm].retcode = 1 => p \in Range(PendingNow(dm))

\* ------------------------------------------------------------------- C7
\* C7: when the only study launched so far was logged as RUNNING and the next
\* call logs it as FINISHED and returns success, the destination holds
\* exactly the FINISHED entry for it.
C7_MergeDominance ==
    \A dm \in Daemons : \A f \in StudyFiles : \A x \in Results :
        ( /\ Done(dm) /\ nlaunch = 1
          /\ call[dm].prevIncoming = <<Tup(f.rid, f.desc, "RUNNING", None)>>
          /\ call[dm].incoming = <<Tup(f.rid, f.desc, "FINISHED", x)>>
          /\ call[dm].retcode = 0 )
        => /\ HistNow(dm).exists
           /\ HistNow(dm).history[f.rid] = Tup(f.rid, f.desc, "FINISHED", x)

\* ------------------------------------------------------------------- C8
\* C8: a call that is given the batch of the call before it, both returning
\* success, changes neither the destination's entries nor the pending list.
C8_Idempotent ==
    \A dm \in Daemons :
        ( /\ Done(dm)
          /\ call[dm].prevIncoming = call[dm].incoming
          /\ call[dm].prevRetcode = 0 /\ call[dm].retcode = 0 )
        => /\ HistNow(dm).history = call[dm].before.history
           /\ PendingNow(dm) = call[dm].prior

Handled(dm) == call[dm].prior \o call[dm].incoming

\* C10: when the pending and incoming entries of a call hold exactly two
\* entries for a request id and their descriptors differ, both are in the
\* commit batch, both are pending after a failed commit, and the conflict is
\* logged.
C10_ConflictKeepsBoth ==
    \A dm \in Daemons :
        Done(dm) =>
            \A i, j \in DOMAIN Handled(dm) :
                ( /\ i # j
                  /\ Handled(dm)[i].rid = Handled(dm)[j].rid
                  /\ Handled(dm)[i].desc # Handled(dm)[j].desc
                  /\ \A k \in DOMAIN Handled(dm) \ {i, j} :
                         Handled(dm)[k].rid # Handled(dm)[i].rid )
                => /\ Handled(dm)[i] \in Range(call[dm].loc_dict)
                   /\ call[dm].retcode = 1 => Handled(dm)[i] \in Range(PendingNow(dm))
                   /\ call[dm].conflictLogged

\* ============================================== _study_tup_g_precedence alone
\* The study tuples of a status dictionary: a status of IMPROV_STATUS_STRINGS
\* and a result that is None or the content of a results.yaml.
StudyTups ==
    [rid : Rids, desc : Descs,
     status : {IMPROV_STATUS_STRINGS[i] : i \in DOMAIN IMPROV_STATUS_STRINGS},
     result : Results \cup {None}]

\* if tup_a[0] != tup_b[0]: return False
PrecIdsDiffer ==
    /\ prec_pc = "call"
    /\ tup_a.rid # tup_b.rid
    /\ prec_ret' = FALSE
    /\ prec_pc' = "done"
    /\ UNCHANGED <<tup_a, tup_b, prec_log, notPrecVars>>

\* The errors the comparison logs: differing descriptions, and the two cases
\* where status and result point in opposite directions.
PrecErrors(a, b) ==
    (IF a.desc # b.desc THEN {"descriptions"} ELSE {})
    \cup (IF \/ /\ StatusIndex(b.status) > StatusIndex(a.status)
               /\ a.result # None /\ b.result = None
            \/ /\ b.result # None /\ a.result = None
               /\ StatusIndex(b.status) < StatusIndex(a.status)
          THEN {"status_vs_result"} ELSE {})

\* The ids match: the errors are logged, status and result are compared.
PrecCompare ==
    /\ prec_pc = "call"
    /\ tup_a.rid = tup_b.rid
    /\ prec_log' = PrecErrors(tup_a, tup_b)
    /\ prec_ret' = _study_tup_g_precedence(tup_a, tup_b)
    /\ prec_pc' = "done"
    /\ UNCHANGED <<tup_a, tup_b, notPrecVars>>

PrecStart ==
    /\ tup_a \in StudyTups /\ tup_b \in StudyTups
    /\ prec_pc = "call" /\ prec_ret = FALSE /\ prec_log = {}

InitPrecedence ==
    /\ LogInit
    /\ PrecStart
    /\ DetIdle
    /\ LoopIdle
    /\ WorkerIdle
    /\ UtilIdle

NextPrecedence ==
    \/ PrecIdsDiffer
    \/ PrecCompare

SpecPrecedence == InitPrecedence /\ [][NextPrecedence]_vars

\* ------------------------------------------------------------------ C11
\* C11: the call returns true exactly when the two tuples have the same
\* request id and either tup_b's status comes strictly later in QUEUED <
\* RUNNING < FINISHED < FAILED or tup_b has a result and tup_a has none.
C11_PrecedenceDefinition ==
    prec_pc = "done" =>
        (prec_ret <=>
            /\ tup_a.rid = tup_b.rid
            /\ \/ \E i, j \in DOMAIN IMPROV_STATUS_STRINGS :
                     /\ IMPROV_STATUS_STRINGS[i] = tup_a.status
                     /\ IMPROV_STATUS_STRINGS[j] = tup_b.status
                     /\ i < j
               \/ (tup_b.result # None /\ tup_a.result = None))

\* A call that returned true on the result alone, tup_b's status being earlier.
C11_Witness ==
    /\ prec_pc = "done" /\ prec_ret
    /\ tup_a.status = "FAILED" /\ tup_b.status = "RUNNING"
    /\ tup_a.desc # tup_b.desc

\* ------------------------------------------------------------------ C12
\* A result is present only on FINISHED or FAILED entries.
ResultOnlyWhenOver(t) == t.result # None => t.status \in {"FINISHED", "FAILED"}

\* C12: when the call says tup_b dominates tup_a, both of the same request id
\* and with results only on FINISHED or FAILED entries, tup_a does not
\* dominate tup_b.
C12_OneDirectional ==
    ( /\ prec_pc = "done" /\ prec_ret
      /\ ResultOnlyWhenOver(tup_a) /\ ResultOnlyWhenOver(tup_b) )
    => ~_study_tup_g_precedence(tup_b, tup_a)

\* ===================================================== DAO.study_has_been_run
\* Proposed studies in one call, and records in the store.
MaxCands == 2
MaxExisting == 2
\* s, the size of a value-in-set query, and s_followup, scaled down.
ChunkSize == 1
FollowupChunkSize == 1

\* A datum a record does not have.
Absent == "absent"
\* quit_at=None
QuitNone == -1
Agents == {"ag1", "ag2"}

\* A request record's data.
Request(seq, fasta, master, structure, type, chains) ==
    [ANTIGEN_SEQUENCE_HASH |-> seq, ANTIGEN_FASTA_HASH |-> fasta,
     MASTER_ANTIGEN_FASTA_HASH |-> master, STRUCTURE_HASH |-> structure,
     study_type |-> type, ANTIGEN_CHAINS_IN_STRUCT |-> chains]

\* d with the datum or attribute k set to v.
With(d, k, v) == [x \in DOMAIN d \cup {k} |-> IF x = k THEN v ELSE d[x]]

\* The requests the store may hold, each with the agents that requested it.
ExistingPool ==
    { [rec |-> With(With(Request(Absent, "f1", "m1", "s1", "t1", <<"a", "b">>),
                         "status", "FINISHED"), "id", "e1"),
       requested_by |-> {"ag1"}],
      [rec |-> With(With(Request(Absent, "f1", "m1", "s1", "t1", <<"b", "a">>),
                         "status", "RUNNING"), "id", "e2"),
       requested_by |-> {"ag2"}],
      [rec |-> With(With(Request(Absent, "f1", "m1", "s1", "t1", <<"a", "b">>),
                         "status", "FAILED"), "id", "e3"),
       requested_by |-> {"ag1", "ag2"}],
      [rec |-> With(With(Request(Absent, "f1", "m2", "s1", "t1", <<"a", "b">>),
                         "status", "FINISHED"), "id", "e4"),
       requested_by |-> {}],
      [rec |-> With(With(Request("q1", "f2", "m1", "s1", "t1", <<"a">>),
                         "status", "FINISHED"), "id", "e5"),
       requested_by |-> {"ag2"}],
      [rec |-> With(With(Request("q1", "f1", "m1", "s2", "t2", <<"a", "b">>),
                         "status", "RUNNING"), "id", "e6"),
       requested_by |-> {"ag1"}] }

\* The studies a caller may propose; the last has no hash to look it up by.
CandidatePool ==
    { Request(Absent, "f1", "m1", "s1", "t1", <<"a", "b">>),
      Request(Absent, "f1", "m1", "s1", "t1", <<"b", "a">>),
      Request("q1", "f2", "m1", "s1", "t1", <<"a">>),
      Request(Absent, "f3", "m1", "s1", "t1", <<"a", "b">>),
      Request("q1", "f1", "m1", "s2", "t2", <<"a", "b">>),
      Request(Absent, Absent, "m1", "s1", "t1", <<"a", "b">>) }

\* check_menu_db's ids of the proposed studies.
ProposedIds == <<"proposed_id_0", "proposed_id_1", "proposed_id_2", "proposed_id_3",
                 "proposed_id_4", "proposed_id_5">>

EqualityParams ==
    { <<>>,      \* equality_params=None
      <<"ANTIGEN_FASTA_HASH">>,
      <<"ANTIGEN_FASTA_HASH", "STRUCTURE_HASH">> }


\* Chunks that stops after the first chunk.
ChunksFirstOnly(list, n) ==
    IF list = <<>> THEN <<>>
    ELSE IF Len(list) <= n THEN <<list>>
    ELSE <<SubSeq(list, 1, n)>>

\* vals_to_query[i:i+s] for i in range(0, len(vals_to_query), s)
RECURSIVE Chunks(_, _)
Chunks(list, n) ==
    IF list = <<>> THEN <<>>
    ELSE IF Len(list) <= n THEN <<list>>
    ELSE <<SubSeq(list, 1, n)>> \o Chunks(SubSeq(list, n + 1, Len(list)), n)

\* self.rels.get(subject_id=agent_id, predicate="requests"), the object ids.
ids_requested_by_agent == { r[2] : r \in { x \in rels : x[1] = agent_id } }


\* FoundInChunk without the filter on the requesting agent.
FoundInChunkAnyAgent(val_chunk, name_of_val) ==
    { <<name_of_val, e[name_of_val], e.id>> :
        e \in { x \in recs :
                  x[name_of_val] \in { val_chunk[i] : i \in DOMAIN val_chunk } } }

\* One value-in-set query: the (name, value, id) of the records whose datum
\* name_of_val is in val_chunk, kept when no agent is given or the agent
\* requested the record.
FoundInChunk(val_chunk, name_of_val) ==
    { <<name_of_val, e[name_of_val], e.id>> :
        e \in { x \in recs :
                  /\ x[name_of_val] \in { val_chunk[i] : i \in DOMAIN val_chunk }
                  /\ (agent_id = None \/ x.id \in ids_requested_by_agent) } }

RECURSIVE QueryChunks(_, _, _, _)
QueryChunks(found_values, chunks, k, name_of_val) ==
    IF k > Len(chunks) THEN found_values
    ELSE QueryChunks(found_values \cup FoundInChunk(chunks[k], name_of_val),
                     chunks, k + 1, name_of_val)

get_results_that_match(found_values, vals_to_query, name_of_val) ==
    QueryChunks(found_values, Chunks(vals_to_query, ChunkSize), 1, name_of_val)

\* found_values[name][val]
IdsFor(found_values, name, val) ==
    { t[3] : t \in { x \in found_values : x[1] = name /\ x[2] = val } }

\* --------------------------------------------- _precheck_study_has_been_run
\* The default lookup: the sequence hash, or the fasta hash of a study that
\* has no sequence hash.
TargetParam(x) ==
    IF x["ANTIGEN_SEQUENCE_HASH"] # Absent
    THEN "ANTIGEN_SEQUENCE_HASH" ELSE "ANTIGEN_FASTA_HASH"

\* The data a study is looked up by.
LookupParams(x, params) ==
    IF params = <<>> THEN {TargetParam(x)} ELSE { params[i] : i \in DOMAIN params }

\* x.data[name]["value"] raises KeyError for some proposed study.
PrecheckRaises(studies, params) ==
    \E i \in DOMAIN studies : \E name \in LookupParams(studies[i], params) :
        studies[i][name] = Absent

\* The values of the studies looked up by name, in the order of the studies.
RECURSIVE ValuesToCheck(_, _, _, _)
ValuesToCheck(studies, params, name, i) ==
    IF i > Len(studies) THEN <<>>
    ELSE (IF name \in LookupParams(studies[i], params)
          THEN <<studies[i][name]>> ELSE <<>>)
         \o ValuesToCheck(studies, params, name, i + 1)

\* found_values once the queries are through: one series of queries for each
\* datum looked up.
RECURSIVE QueryParams(_, _, _, _)
QueryParams(found_values, studies, params, names) ==
    IF names = <<>> THEN found_values
    ELSE QueryParams(
             get_results_that_match(found_values,
                                    ValuesToCheck(studies, params, Head(names), 1),
                                    Head(names)),
             studies, params, Tail(names))

FoundValues(studies, params) ==
    QueryParams({}, studies, params,
                IF params = <<>>
                THEN <<"ANTIGEN_SEQUENCE_HASH", "ANTIGEN_FASTA_HASH">>
                ELSE params)

\* The existing records a proposed study may duplicate: those found under its
\* value, for every datum it is looked up by.
PotentialMatches(found_values, x, params) ==
    { id \in { t[3] : t \in found_values } :
        \A name \in LookupParams(x, params) : id \in IdsFor(found_values, name, x[name]) }

\* studies_might_exist.  By default a study might exist when its value is a
\* key of found_values[target_param], and the lookup that follows makes its
\* value a key (found_values is a defaultdict); with equality_params it
\* might exist when it has potential matches.
RECURSIVE StudiesMightExist(_, _, _, _, _)
StudiesMightExist(found_values, keys, studies, params, i) ==
    IF i > Len(studies) THEN <<>>
    ELSE LET x == studies[i]
             key == <<TargetParam(x), x[TargetParam(x)]>>
         IN  <<IF params = <<>>
               THEN key \in keys
               ELSE PotentialMatches(found_values, x, params) # {}>>
             \o StudiesMightExist(found_values, keys \cup {key}, studies, params, i + 1)

\* existing_to_proposed[existing_id]: the ids of the proposed studies that may
\* duplicate it, in the order of the studies.
RECURSIVE ProposedFor(_, _, _, _, _)
ProposedFor(found_values, studies, params, existing_id, i) ==
    IF i > Len(studies) THEN <<>>
    ELSE (IF existing_id \in PotentialMatches(found_values, studies[i], params)
          THEN <<studies[i].id>> ELSE <<>>)
         \o ProposedFor(found_values, studies, params, existing_id, i + 1)

ExistingToProposed(found_values, studies, params) ==
    [existing_id \in UNION { PotentialMatches(found_values, studies[i], params) :
                               i \in DOMAIN studies }
        |-> ProposedFor(found_values, studies, params, existing_id, 1)]

\* What the precheck returns: whether it raised, studies_might_exist and
\* existing_to_proposed.
_precheck_study_has_been_run(studies, params) ==
    IF agent_id # None /\ ids_requested_by_agent = {}
    THEN [raised |-> FALSE, might |-> [i \in DOMAIN studies |-> FALSE],
          map |-> <<>>]
    ELSE IF PrecheckRaises(studies, params)
    THEN [raised |-> TRUE, might |-> <<>>, map |-> <<>>]
    ELSE LET found_values == FoundValues(studies, params)
         IN  [raised |-> FALSE,
              might |-> StudiesMightExist(found_values,
                            { <<t[1], t[2]>> : t \in found_values },
                            studies, params, 1),
              map |-> ExistingToProposed(found_values, studies, params)]

\* ------------------------------------------------------- study_has_been_run
\* proposed_studies_by_id[id]: the last proposed study of that id.
ProposedById(studies, id) ==
    studies[CHOOSE i \in DOMAIN studies :
                /\ studies[i].id = id
                /\ \A j \in DOMAIN studies : studies[j].id = id => j <= i]

\* The record of the store with that id.
RecordOf(existing_id) == CHOOSE e \in recs : e.id = existing_id

\* The keys of a dictionary as a list.
RECURSIVE KeyList(_)
KeyList(keys) ==
    IF keys = {} THEN <<>>
    ELSE LET k == CHOOSE x \in keys : TRUE IN <<k>> \o KeyList(keys \ {k})

study_followup_criteria ==
    <<"status", "MASTER_ANTIGEN_FASTA_HASH", "STRUCTURE_HASH", "study_type">>

\* The proposed studies of ids that agree with the existing record on every
\* criterion after the status.
RECURSIVE FollowupDuplicates(_, _, _, _)
FollowupDuplicates(studies, existing_data, ids, i) ==
    IF i > Len(ids) THEN <<>>
    ELSE (IF \A c \in 2..Len(study_followup_criteria) :
                ProposedById(studies, ids[i])[study_followup_criteria[c]]
                    = existing_data[study_followup_criteria[c]]
          THEN <<ids[i]>> ELSE <<>>)
         \o FollowupDuplicates(studies, existing_data, ids, i + 1)

\* One chunk of the second round: third_round_existing_to_proposed gets a key
\* for every existing record of the chunk that is RUNNING or FINISHED and
\* that some proposed study agrees with.
FollowupChunk(studies, map, followup_chunk, third) ==
    LET hit == { existing_id \in { followup_chunk[i] : i \in DOMAIN followup_chunk } :
                   /\ RecordOf(existing_id).status \in {"RUNNING", "FINISHED"}
                   /\ FollowupDuplicates(studies, RecordOf(existing_id),
                                         map[existing_id], 1) # <<>> }
    IN  [existing_id \in DOMAIN third \cup hit |->
            IF existing_id \in hit
            THEN FollowupDuplicates(studies, RecordOf(existing_id), map[existing_id], 1)
            ELSE third[existing_id]]

RECURSIVE FollowupChunks(_, _, _, _, _)
FollowupChunks(studies, map, chunks, k, third) ==
    IF k > Len(chunks) THEN third
    ELSE FollowupChunks(studies, map, chunks, k + 1,
                        FollowupChunk(studies, map, chunks[k], third))

third_round_existing_to_proposed(studies, map) ==
    FollowupChunks(studies, map, Chunks(KeyList(DOMAIN map), FollowupChunkSize), 1, <<>>)


\* ChainChunk with the chains compared as sets of chains.
ChainChunkAsSets(studies, third, study_chunk, chains_data, duplicate_studies) ==
    LET fetched == { id \in { study_chunk[i] : i \in DOMAIN study_chunk } :
                       RecordOf(id)["ANTIGEN_CHAINS_IN_STRUCT"] # <<>> }
        data == [id \in DOMAIN chains_data \cup fetched |->
                    RecordOf(id)["ANTIGEN_CHAINS_IN_STRUCT"]]
    IN  [chains |-> data,
         dups |-> duplicate_studies \cup
                  { pid \in { studies[i].id : i \in DOMAIN studies } :
                      \E existing_id \in DOMAIN data :
                          /\ \E i \in DOMAIN third[existing_id] :
                                 third[existing_id][i] = pid
                          /\ Range(ProposedById(studies, pid)["ANTIGEN_CHAINS_IN_STRUCT"])
                                 = Range(data[existing_id]) }]

\* One chunk of the third round: the chains of the chunk's records are
\* fetched, and every proposed study whose chains equal those of an existing
\* record fetched so far is a duplicate.
ChainChunk(studies, third, study_chunk, chains_data, duplicate_studies) ==
    LET fetched == { id \in { study_chunk[i] : i \in DOMAIN study_chunk } :
                       RecordOf(id)["ANTIGEN_CHAINS_IN_STRUCT"] # <<>> }
        data == [id \in DOMAIN chains_data \cup fetched |->
                    RecordOf(id)["ANTIGEN_CHAINS_IN_STRUCT"]]
    IN  [chains |-> data,
         dups |-> duplicate_studies \cup
                  { pid \in { studies[i].id : i \in DOMAIN studies } :
                      \E existing_id \in DOMAIN data :
                          /\ \E i \in DOMAIN third[existing_id] :
                                 third[existing_id][i] = pid
                          /\ ProposedById(studies, pid)["ANTIGEN_CHAINS_IN_STRUCT"]
                                 = data[existing_id] }]

RECURSIVE ChainChunks(_, _, _, _, _, _)
ChainChunks(studies, third, chunks, k, chains_data, duplicate_studies) ==
    IF k > Len(chunks) THEN duplicate_studies
    ELSE LET step == ChainChunk(studies, third, chunks[k], chains_data, duplicate_studies)
         IN  ChainChunks(studies, third, chunks, k + 1, step.chains, step.dups)

duplicate_studies(studies, map) ==
    LET third == third_round_existing_to_proposed(studies, map)
    IN  ChainChunks(studies, third, Chunks(KeyList(DOMAIN third), ChunkSize), 1, <<>>, {})

\* preexistence_status: the proposed study's id when it is a duplicate.
preexistence_status(studies, map) ==
    [i \in DOMAIN studies |->
        IF studies[i].id \in duplicate_studies(studies, map)
        THEN studies[i].id ELSE "False"]

\* might_have_been_run.count(False) >= quit_at, quit_at=None being the number
\* of proposed studies.
QuitsEarly(studies, might, quit) ==
    Cardinality({ i \in DOMAIN might : ~might[i] })
        >= (IF quit = QuitNone THEN Len(studies) ELSE quit)

\* might_have_been_run as it is returned.
Bools(might) == [i \in DOMAIN might |-> IF might[i] THEN "True" ELSE "False"]

\* The whole call: whether it raised, and the list it returned.
study_has_been_run(studies, quit, params) ==
    LET pre == _precheck_study_has_been_run(studies, params)
    IN  IF pre.raised THEN [raised |-> TRUE, ret |-> <<>>]
        ELSE IF QuitsEarly(studies, pre.might, quit)
        THEN [raised |-> FALSE, ret |-> Bools(pre.might)]
        ELSE [raised |-> FALSE, ret |-> preexistence_status(studies, pre.map)]

\* ------------------------------------------------- the call, step by step
\* Every list of at most MaxCands proposed studies, with check_menu_db's ids.
ProposedLists ==
    UNION { { [i \in 1..n |-> With(f[i], "id", ProposedIds[i])] :
                f \in [1..n -> CandidatePool] } : n \in 1..MaxCands }

\* A store of at most MaxExisting requests, and a call on it.
DetStart ==
    /\ \E store \in SUBSET ExistingPool :
          /\ Cardinality(store) <= MaxExisting
          /\ recs = { p.rec : p \in store }
          /\ rels = UNION { { <<a, p.rec.id>> : a \in p.requested_by } : p \in store }
    /\ proposed_studies \in ProposedLists
    /\ agent_id \in Agents \cup {None}
    /\ quit_at \in {QuitNone} \cup 1..MaxCands
    /\ equality_params \in EqualityParams
    /\ shbr_pc = "call" /\ might_have_been_run = <<>>
    /\ existing_to_proposed_map = <<>> /\ shbr_ret = <<>>

\* The agent has requested nothing: [False]*len(proposed_studies), {}
PrecheckNoRequests ==
    /\ shbr_pc = "call"
    /\ agent_id # None /\ ids_requested_by_agent = {}
    /\ might_have_been_run' =
           _precheck_study_has_been_run(proposed_studies, equality_params).might
    /\ existing_to_proposed_map' = <<>>
    /\ shbr_pc' = "prechecked"
    /\ UNCHANGED <<recs, rels, proposed_studies, agent_id, quit_at, equality_params,
                   shbr_ret, notDetVars>>

\* A proposed study lacks the datum it is looked up by: KeyError.
PrecheckKeyError ==
    /\ shbr_pc = "call"
    /\ _precheck_study_has_been_run(proposed_studies, equality_params).raised
    /\ shbr_pc' = "raised"
    /\ UNCHANGED <<recs, rels, proposed_studies, agent_id, quit_at, equality_params,
                   might_have_been_run, existing_to_proposed_map, shbr_ret, notDetVars>>

\* The queries of the precheck.
PrecheckQueries ==
    /\ shbr_pc = "call"
    /\ ~(agent_id # None /\ ids_requested_by_agent = {})
    /\ ~_precheck_study_has_been_run(proposed_studies, equality_params).raised
    /\ might_have_been_run' =
           _precheck_study_has_been_run(proposed_studies, equality_params).might
    /\ existing_to_proposed_map' =
           _precheck_study_has_been_run(proposed_studies, equality_params).map
    /\ shbr_pc' = "prechecked"
    /\ UNCHANGED <<recs, rels, proposed_studies, agent_id, quit_at, equality_params,
                   shbr_ret, notDetVars>>

\* Enough studies are known not to have been run: might_have_been_run is
\* returned.
QuitEarly ==
    /\ shbr_pc = "prechecked"
    /\ QuitsEarly(proposed_studies, might_have_been_run, quit_at)
    /\ shbr_ret' = Bools(might_have_been_run)
    /\ shbr_pc' = "quit"
    /\ UNCHANGED <<recs, rels, proposed_studies, agent_id, quit_at, equality_params,
                   might_have_been_run, existing_to_proposed_map, notDetVars>>

\* The second and third round, and the return of preexistence_status.
Resolve ==
    /\ shbr_pc = "prechecked"
    /\ ~QuitsEarly(proposed_studies, might_have_been_run, quit_at)
    /\ shbr_ret' = preexistence_status(proposed_studies, existing_to_proposed_map)
    /\ shbr_pc' = "resolved"
    /\ UNCHANGED <<recs, rels, proposed_studies, agent_id, quit_at, equality_params,
                   might_have_been_run, existing_to_proposed_map, notDetVars>>

InitDetector ==
    /\ LogInit
    /\ PrecIdle
    /\ DetStart
    /\ LoopIdle
    /\ WorkerIdle
    /\ UtilIdle

NextDetector ==
    \/ PrecheckNoRequests
    \/ PrecheckKeyError
    \/ PrecheckQueries
    \/ QuitEarly
    \/ Resolve

SpecDetector == InitDetector /\ [][NextDetector]_vars

\* The call has returned a list.
Returned == shbr_pc \in {"quit", "resolved"}

\* The call has gone through every round.
Resolved == shbr_pc = "resolved"

\* The data the proposed study x is looked up by in this call.
ChosenKeys(x) ==
    IF equality_params # <<>> THEN Range(equality_params)
    ELSE IF x["ANTIGEN_SEQUENCE_HASH"] # Absent THEN {"ANTIGEN_SEQUENCE_HASH"}
    ELSE {"ANTIGEN_FASTA_HASH"}

\* The stored request e has x's value of every chosen key.
KeyMatch(x, e) == \A k \in ChosenKeys(x) : e[k] # Absent /\ e[k] = x[k]

\* e may count for this call: any request, or one the scoping agent requested.
InScope(e) == agent_id = None \/ <<agent_id, e.id>> \in rels

\* e is a duplicate of x on every round.
FullMatch(x, e) ==
    /\ KeyMatch(x, e)
    /\ e["status"] \in {"RUNNING", "FINISHED"}
    /\ e["MASTER_ANTIGEN_FASTA_HASH"] = x["MASTER_ANTIGEN_FASTA_HASH"]
    /\ e["STRUCTURE_HASH"] = x["STRUCTURE_HASH"]
    /\ e["study_type"] = x["study_type"]
    /\ e["ANTIGEN_CHAINS_IN_STRUCT"] = x["ANTIGEN_CHAINS_IN_STRUCT"]

\* C13: whenever the call returns, a proposed study whose chosen key matches
\* no stored request is reported False, and, when every round was run, a
\* proposed study that a stored request in scope matches on every round is
\* reported as the id of such a request.
C13_DedupCorrectness ==
    Returned =>
        \A i \in DOMAIN proposed_studies :
            /\ (\A e \in recs : ~KeyMatch(proposed_studies[i], e))
                   => shbr_ret[i] = "False"
            /\ (Resolved /\ \E e \in recs : InScope(e) /\ FullMatch(proposed_studies[i], e))
                   => \E e \in recs : /\ InScope(e)
                                      /\ FullMatch(proposed_studies[i], e)
                                      /\ shbr_ret[i] = e.id

\* The caller asked for every study to be resolved, or the early exit was not
\* taken.
NoEarlyExit == Returned /\ (Resolved \/ quit_at = QuitNone)

\* The call reports the i-th proposed study as already run.
ReportedRun(i) == shbr_ret[i] # "False"

\* C14: when no early exit occurs, a proposed study is reported as already
\* run if and only if some stored request in scope matches it on every chosen
\* key, is RUNNING or FINISHED, agrees on the master antigen hash, the
\* structure hash and the study type, and has the same chains in the same
\* order.
C14_RunIffFullMatch ==
    NoEarlyExit =>
        \A i \in DOMAIN proposed_studies :
            ReportedRun(i) <=>
                \E e \in recs : InScope(e) /\ FullMatch(proposed_studies[i], e)

\* Two stored requests and two proposed studies that agree on everything but
\* the chains, each proposed study the duplicate of one of the two.
C14_Witness ==
    /\ Resolved
    /\ Len(proposed_studies) = 2
    /\ Cardinality(recs) = 2
    /\ proposed_studies[1]["ANTIGEN_CHAINS_IN_STRUCT"]
           # proposed_studies[2]["ANTIGEN_CHAINS_IN_STRUCT"]
    /\ \A e \in recs : \A i \in 1..2 :
          /\ KeyMatch(proposed_studies[i], e)
          /\ e["MASTER_ANTIGEN_FASTA_HASH"] = proposed_studies[i]["MASTER_ANTIGEN_FASTA_HASH"]
          /\ e["STRUCTURE_HASH"] = proposed_studies[i]["STRUCTURE_HASH"]
          /\ e["study_type"] = proposed_studies[i]["study_type"]
    /\ \A i \in 1..2 : \E e \in recs :
          /\ FullMatch(proposed_studies[i], e)
          /\ \E f \in recs : ~FullMatch(proposed_studies[i], f)
    /\ ReportedRun(1) /\ ReportedRun(2)

\* The agents that requested the stored request e.
RequestedBy(e) == { a \in Agents : <<a, e.id>> \in rels }

\* Some stored request duplicates x, whoever requested it.
HasDuplicate(x) == \E e \in recs : FullMatch(x, e)

\* C15: in a call without early exit, a proposed study all of whose
\* duplicates in the store were requested only by agents other than the
\* scoping agent is reported False; a proposed study with a duplicate is
\* reported as run by the unscoped call and by the call scoped to an agent
\* that requested a duplicate.
C15_AgentScoping ==
    NoEarlyExit =>
        \A i \in DOMAIN proposed_studies :
            HasDuplicate(proposed_studies[i]) =>
                /\ (/\ agent_id # None
                    /\ \A e \in recs : FullMatch(proposed_studies[i], e)
                                          => agent_id \notin RequestedBy(e))
                       => shbr_ret[i] = "False"
                /\ (\/ agent_id = None
                    \/ \E e \in recs : /\ FullMatch(proposed_studies[i], e)
                                       /\ agent_id \in RequestedBy(e))
                       => ReportedRun(i)

\* A call scoped to an agent with requests of its own, in which a proposed
\* study has a duplicate requested by another agent only, and another
\* proposed study has a duplicate the agent requested.
C15_Witness ==
    /\ Resolved
    /\ agent_id # None
    /\ \E i, j \in DOMAIN proposed_studies :
          /\ HasDuplicate(proposed_studies[i])
          /\ \A e \in recs : FullMatch(proposed_studies[i], e)
                                => (agent_id \notin RequestedBy(e) /\ RequestedBy(e) # {})
          /\ shbr_ret[i] = "False"
          /\ \E e \in recs : /\ FullMatch(proposed_studies[j], e)
                             /\ agent_id \in RequestedBy(e)
          /\ ReportedRun(j)

\* The proposed studies whose chosen key matches no stored request in scope.
Unmatched ==
    { i \in DOMAIN proposed_studies :
        \A e \in recs : ~(InScope(e) /\ KeyMatch(proposed_studies[i], e)) }

\* C16: a call with quit_at = q that returns has, when at least q proposed
\* studies are unmatched, returned early with False for exactly the unmatched
\* studies and True for every other, and has otherwise resolved every study.
C16_EarlyExit ==
    (Returned /\ quit_at # QuitNone) =>
        IF Cardinality(Unmatched) >= quit_at
        THEN /\ shbr_pc = "quit"
             /\ \A i \in DOMAIN proposed_studies :
                   shbr_ret[i] = (IF i \in Unmatched THEN "False" ELSE "True")
        ELSE /\ Resolved
             /\ \A i \in DOMAIN proposed_studies :
                   ReportedRun(i) <=>
                       \E e \in recs : InScope(e) /\ FullMatch(proposed_studies[i], e)

\* The result of submitting the i-th proposed study alone, without quit_at.
Singly(i) == study_has_been_run(<<proposed_studies[i]>>, QuitNone, equality_params)

\* C17: a call without quit_at that returns gives a list as long as the list
\* of proposed studies, and reports its i-th study as run exactly when the
\* call on the i-th study alone does.
C17_ChunkingTransparent ==
    (Returned /\ quit_at = QuitNone) =>
        /\ Len(shbr_ret) = Len(proposed_studies)
        /\ \A i \in DOMAIN proposed_studies :
              /\ ~Singly(i).raised
              /\ Len(Singly(i).ret) = 1
              /\ ReportedRun(i) <=> Singly(i).ret[1] # "False"

\* A call without quit_at on more proposed studies than one chunk holds, all
\* looked up by the same datum, that went through more than one chunk in the
\* second round too, with studies reported as run and as not run.
C17_Witness ==
    /\ Resolved /\ quit_at = QuitNone
    /\ Len(proposed_studies) > ChunkSize
    /\ \A i \in DOMAIN proposed_studies :
          ChosenKeys(proposed_studies[i]) = ChosenKeys(proposed_studies[1])
    /\ Cardinality(DOMAIN existing_to_proposed_map) > FollowupChunkSize
    /\ \E i \in DOMAIN proposed_studies : ReportedRun(i)
    /\ \E i \in DOMAIN proposed_studies : ~ReportedRun(i)

\* Some proposed study has no value for a datum it is looked up by.
LacksKey ==
    \E i \in DOMAIN proposed_studies :
        \E k \in ChosenKeys(proposed_studies[i]) : proposed_studies[i][k] = Absent

\* C18: a call in which a proposed study lacks a value for a datum it is
\* looked up by never returns a list, whatever the scope and the store.
C18_MissingKeyFails == LacksKey => ~Returned

\* ---------------------------------------------- run_worker's main loop
\* Cycles of the main loop that are followed.
MaxCycles == 2

\* The request files that may lie in the inbox.
LoopFiles == { [rid |-> "r3", desc |-> "d1"], [rid |-> "r4", desc |-> "d2"] }
LoopRids == { f.rid : f \in LoopFiles }

\* The history destinations, in the order they are logged to.
HistoryDests == <<"history_file", "database_access_obj", "local_history_file">>

\* The exit codes of a child maestro, as poll returns them.
ExitCodes == {"0", "1"}
\* The parsed content of a results.yaml.
ParsedResult == "x1"

\* What the environment does to one call: every lock acquisition (or the
\* database write) succeeds; every one times out (fails); or the acquisition
\* that creates the file succeeds and the one of the append times out.
CallOutcomes == {"ok", "timeout", "late_timeout"}

NoHistory == [exists |-> FALSE, history |-> [r \in LoopRids |-> NoEntry]]

\* _append_to_history on a history file, the lock acquisitions as given.
_append_to_history(file, tups, outcome) ==
    LET created == IF ~file.exists /\ outcome # "timeout"
                   THEN [exists |-> TRUE, history |-> file.history]
                   ELSE file
    IN  IF created.exists /\ Len(tups) > 0
        THEN IF outcome = "ok"
             THEN [file |-> [exists |-> TRUE,
                             history |-> AppendLoop(created.history, tups, 1)],
                   retcode |-> 0]
             ELSE [file |-> created, retcode |-> 1]
        ELSE [file |-> created, retcode |-> 0]

\* _append_to_history_db: the records are written, or an exception is caught.
_append_to_history_db(dao, tups, outcome) ==
    IF Len(tups) > 0
    THEN IF outcome = "ok"
         THEN [file |-> [exists |-> TRUE, history |-> AppendLoop(dao.history, tups, 1)],
               retcode |-> 0]
         ELSE [file |-> dao, retcode |-> 1]
    ELSE [file |-> dao, retcode |-> 0]

\* _append_to_history_with_pending_logging on destination hf.
_append_to_history_with_pending_logging(hf, file, tups, pending_log_actions, outcome) ==
    LET loc_dict == _get_latest_logging_actions(pending_log_actions, hf, tups)
        res == IF hf = "database_access_obj"
               THEN _append_to_history_db(file, loc_dict, outcome)
               ELSE _append_to_history(file, loc_dict, outcome)
    IN  [file |-> res.file,
         pending |-> _update_pending_log_actions(pending_log_actions, res.retcode,
                                                 hf, loc_dict)]

\* valid_hfs: the configured destinations, in order.
valid_hfs == SelectSeq(HistoryDests, LAMBDA hf : hf \in configured)

\* for hf in valid_hfs: the call above, from the i-th destination on.
RECURSIVE LogToAll(_, _, _, _, _)
LogToAll(files, pending_log_actions, tups, outcomes, i) ==
    IF i > Len(valid_hfs) THEN [files |-> files, pending |-> pending_log_actions]
    ELSE LET hf == valid_hfs[i]
             res == _append_to_history_with_pending_logging(
                        hf, files[hf], tups, pending_log_actions, outcomes[hf])
         IN  LogToAll([files EXCEPT ![hf] = res.file], res.pending, tups, outcomes, i + 1)

\* The outcomes of the calls on the configured destinations: the creation
\* can succeed and the append time out only where there is no file yet, and
\* a call with nothing to write to an existing destination asks for no lock.
LoopOutcomes(tups) ==
    { o \in [configured -> CallOutcomes] :
        \A hf \in configured :
            /\ o[hf] = "late_timeout" => ~histories[hf].exists
            /\ (/\ histories[hf].exists
                /\ tups = <<>>
                /\ PendingOf(pending_logs, hf) = <<>>) => o[hf] = "ok" }

\* MonitorEntry taking exit code 0 for success without looking for results.
MonitorEntryTrustsExitCode(maestro, retcode, has_results) ==
    IF retcode = None THEN <<>>
    ELSE IF retcode = "0"
    THEN <<Tup(maestro.request_id, maestro.run_descriptors, "FINISHED",
               IF has_results THEN ParsedResult ELSE None)>>
    ELSE <<Tup(maestro.request_id, maestro.run_descriptors, "FAILED", None)>>

\* monitor_and_log's entry for one running maestro: nothing while poll returns
\* None, FINISHED with the parsed results.yaml after exit code 0 when the
\* file is found, FAILED otherwise.
MonitorEntry(maestro, retcode, has_results) ==
    IF retcode = None THEN <<>>
    ELSE IF retcode = "0"
    THEN IF has_results
         THEN <<Tup(maestro.request_id, maestro.run_descriptors, "FINISHED", ParsedResult)>>
         ELSE <<Tup(maestro.request_id, maestro.run_descriptors, "FAILED", None)>>
    ELSE <<Tup(maestro.request_id, maestro.run_descriptors, "FAILED", None)>>

\* The entries of all running maestros, in the order of the dictionary.
RECURSIVE KeysToPop(_, _, _)
KeysToPop(maestros, retcodes, i) ==
    IF i > Len(maestros) THEN <<>>
    ELSE MonitorEntry(maestros[i], retcodes[i], results_yaml[maestros[i].request_id])
         \o KeysToPop(maestros, retcodes, i + 1)

\* running_maestros[request_id] = {...}
PutMaestro(maestros, m) ==
    IF \E i \in DOMAIN maestros : maestros[i].request_id = m.request_id
    THEN [i \in DOMAIN maestros |->
             IF maestros[i].request_id = m.request_id THEN m ELSE maestros[i]]
    ELSE Append(maestros, m)

\* The orders in which os.listdir may give the files of the inbox.
Listings(files) ==
    { l \in [1..Cardinality(files) -> files] : \A f \in files : \E i \in DOMAIN l : l[i] = f }

\* The worker before its first cycle: request files in the inbox, nothing
\* running, no history written, the local history always configured.
LoopStart ==
    /\ inbox \in (SUBSET LoopFiles) \ {{}}
    /\ outbox = {}
    /\ study_files = <<>> /\ sfi = 0
    /\ running_maestros = <<>>
    /\ Popen = [r \in LoopRids |-> "not started"]
    /\ results_yaml = [r \in LoopRids |-> FALSE]
    /\ request_ids_launching = <<>>
    /\ polled = <<>> /\ keys_to_pop = <<>>
    /\ histories = [hf \in Range(HistoryDests) |->
                       IF hf = "database_access_obj"
                       THEN [exists |-> TRUE, history |-> NoHistory.history]
                       ELSE NoHistory]
    /\ configured \in { c \in SUBSET Range(HistoryDests) : "local_history_file" \in c }
    /\ pending_logs = EmptyPending
    /\ loop_pc = "monitor_and_log"
    /\ cycles = 0
    /\ started_from = [r \in LoopRids |-> "not started"]

\* monitor_and_log: every maestro is polled, the finished ones are logged to
\* every destination and removed.
MonitorAndLog ==
    /\ loop_pc = "monitor_and_log"
    /\ cycles < MaxCycles
    /\ LET retcodes == [i \in DOMAIN running_maestros |->
                           Popen[running_maestros[i].request_id]]
           tups == KeysToPop(running_maestros, retcodes, 1)
       IN  /\ polled' = [i \in DOMAIN running_maestros |->
                            [request_id |-> running_maestros[i].request_id,
                             retcode |-> retcodes[i]]]
           /\ keys_to_pop' = tups
           /\ \E outcomes \in LoopOutcomes(tups) :
                 LET res == LogToAll(histories, pending_logs, tups, outcomes, 1)
                 IN  histories' = res.files /\ pending_logs' = res.pending
           /\ running_maestros' =
                  SelectSeq(running_maestros,
                            LAMBDA m : \A i \in 1..Len(tups) : tups[i].rid # m.request_id)
    /\ loop_pc' = "list_requested_studies"
    /\ UNCHANGED <<inbox, outbox, study_files, sfi, Popen, results_yaml,
                   request_ids_launching, configured, cycles, started_from, notLoopVars>>

\* list_requested_studies, and the start of launch_requested_studies.
ListRequestedStudies ==
    /\ loop_pc = "list_requested_studies"
    /\ study_files' \in Listings(inbox)
    /\ sfi' = 1
    /\ request_ids_launching' = <<>>
    /\ loop_pc' = IF inbox = {} THEN "log_launch" ELSE "os_rename_with_lock"
    /\ UNCHANGED <<inbox, outbox, running_maestros, Popen, results_yaml, polled,
                   keys_to_pop, histories, configured, pending_logs, cycles,
                   started_from, notLoopVars>>

\* os_rename_with_lock(sfi, sfo): the request file is moved to the outbox.
Rename ==
    /\ loop_pc = "os_rename_with_lock"
    /\ inbox' = inbox \ {study_files[sfi]}
    /\ outbox' = outbox \cup {study_files[sfi]}
    /\ loop_pc' = "get_Popen_DEVNULL"
    /\ UNCHANGED <<study_files, sfi, running_maestros, Popen, results_yaml,
                   request_ids_launching, polled, keys_to_pop, histories, configured,
                   pending_logs, cycles, started_from, notLoopVars>>

\* ... or the lock of the request file is not acquired in 30 s: Timeout is
\* raised and nothing catches it.
RenameTimeout ==
    /\ loop_pc = "os_rename_with_lock"
    /\ loop_pc' = "raised"
    /\ UNCHANGED <<inbox, outbox, study_files, sfi, running_maestros, Popen,
                   results_yaml, request_ids_launching, polled, keys_to_pop, histories,
                   configured, pending_logs, cycles, started_from, notLoopVars>>

\* The child maestro is started and entered in running_maestros.
StartMaestro ==
    /\ loop_pc = "get_Popen_DEVNULL"
    /\ LET f == study_files[sfi]
       IN  /\ running_maestros' =
                  PutMaestro(running_maestros,
                             [request_id |-> f.rid, run_descriptors |-> f.desc,
                              retcode |-> None])
           /\ Popen' = [Popen EXCEPT ![f.rid] = None]
           /\ results_yaml' = [results_yaml EXCEPT ![f.rid] = FALSE]
           /\ started_from' = [started_from EXCEPT ![f.rid] =
                                  IF f \in outbox THEN "outbox" ELSE "inbox"]
           /\ request_ids_launching' =
                  Append(request_ids_launching, Tup(f.rid, f.desc, "RUNNING", None))
    /\ sfi' = sfi + 1
    /\ loop_pc' = IF sfi = Len(study_files) THEN "log_launch" ELSE "os_rename_with_lock"
    /\ UNCHANGED <<inbox, outbox, study_files, polled, keys_to_pop, histories,
                   configured, pending_logs, cycles, notLoopVars>>

\* The launches are logged as RUNNING to every destination; the cycle ends.
LogLaunch ==
    /\ loop_pc = "log_launch"
    /\ \E outcomes \in LoopOutcomes(request_ids_launching) :
          LET res == LogToAll(histories, pending_logs, request_ids_launching, outcomes, 1)
          IN  histories' = res.files /\ pending_logs' = res.pending
    /\ cycles' = cycles + 1
    /\ loop_pc' = "monitor_and_log"
    /\ UNCHANGED <<inbox, outbox, study_files, sfi, running_maestros, Popen,
                   results_yaml, request_ids_launching, polled, keys_to_pop,
                   configured, started_from, notLoopVars>>

\* A child maestro exits, with or without a results.yaml in its run path.
MaestroExits ==
    \E r \in LoopRids, code \in ExitCodes, written \in BOOLEAN :
        /\ Popen[r] = None
        /\ Popen' = [Popen EXCEPT ![r] = code]
        /\ results_yaml' = [results_yaml EXCEPT ![r] = written]
        /\ UNCHANGED <<inbox, outbox, study_files, sfi, running_maestros,
                       request_ids_launching, polled, keys_to_pop, histories,
                       configured, pending_logs, loop_pc, cycles, started_from,
                       notLoopVars>>

InitLoop ==
    /\ LogInit
    /\ PrecIdle
    /\ DetIdle
    /\ LoopStart
    /\ WorkerIdle
    /\ UtilIdle

NextLoop ==
    \/ MonitorAndLog
    \/ ListRequestedStudies
    \/ Rename
    \/ RenameTimeout
    \/ StartMaestro
    \/ LogLaunch
    \/ MaestroExits

SpecLoop == InitLoop /\ [][NextLoop]_vars

\* The request file of r3.
FileR3 == [rid |-> "r3", desc |-> "d1"]

\* The first cycle has just ended.
AfterOneCycle == cycles = 1 /\ loop_pc = "monitor_and_log"

\* C19: when the inbox held the one request file of r3, then after one full
\* cycle the file is in the outbox and was there when its process was
\* started, every configured destination has a RUNNING entry for r3, and r3
\* is in running_maestros with retcode None.
C19_LaunchCycle ==
    (AfterOneCycle /\ inbox \cup outbox = {FileR3}) =>
        /\ FileR3 \in outbox /\ FileR3 \notin inbox
        /\ started_from["r3"] = "outbox"
        /\ \A hf \in configured : histories[hf].history["r3"].status = "RUNNING"
        /\ \E i \in DOMAIN running_maestros :
              /\ running_maestros[i].request_id = "r3"
              /\ running_maestros[i].retcode = None

\* monitor_and_log has just returned.
Monitored == loop_pc = "list_requested_studies"

\* The entries the last monitor_and_log made for request r.
EntriesFor(r) == { keys_to_pop[i] : i \in { j \in DOMAIN keys_to_pop : keys_to_pop[j].rid = r } }

\* r is in running_maestros with retcode None.
Active(r) ==
    \E i \in DOMAIN running_maestros :
        running_maestros[i].request_id = r /\ running_maestros[i].retcode = None

\* The run descriptors of request r.
DescriptorsOf(r) == (CHOOSE f \in LoopFiles : f.rid = r).desc

\* C20: when monitor_and_log has returned, a study it polled with exit code
\* 0 and a results.yaml has the one entry (FINISHED, parsed results) and is
\* no longer active; one polled with exit code 0 and no results.yaml, or with
\* another exit code, has the one entry (FAILED, None) and is no longer
\* active; one whose poll returned None has no entry and is still active.
C20_ExitCodeMapping ==
    Monitored =>
        \A i \in DOMAIN polled :
            LET r == polled[i].request_id
                retcode == polled[i].retcode
            IN  IF retcode = None
                THEN EntriesFor(r) = {} /\ Active(r)
                ELSE /\ ~Active(r)
                     /\ EntriesFor(r) =
                            { IF retcode = "0" /\ results_yaml[r]
                              THEN Tup(r, DescriptorsOf(r), "FINISHED", ParsedResult)
                              ELSE Tup(r, DescriptorsOf(r), "FAILED", None) }

\* A monitor_and_log that polled two studies: one had exited with code 0
\* without a results.yaml and was entered as FAILED, the other was still
\* running.
C20_Witness ==
    /\ Monitored
    /\ \E i, j \in DOMAIN polled :
          /\ polled[i].retcode = "0" /\ ~results_yaml[polled[i].request_id]
          /\ Tup(polled[i].request_id, DescriptorsOf(polled[i].request_id), "FAILED", None)
                 \in EntriesFor(polled[i].request_id)
          /\ polled[j].retcode = None /\ Active(polled[j].request_id)

\* ------------------------- run_worker: sentinels, decision study, the end
\* The request files that may be submitted to the inbox during the run.
WorkerFiles == { [rid |-> "r3", desc |-> "d1"] }

\* decision_study.yaml, with the request id and run descriptors it gives.
IMPROV_DECISION_STUDY == [rid |-> "decision_study", desc |-> "d0"]

WorkerRids == { f.rid : f \in WorkerFiles } \cup {IMPROV_DECISION_STUDY.rid}

\* The path that str(dao), the database url, spells when it is taken for the
\* path of a history file.
DaoStr == "str(dao)"

\* The files and the record store that entries can be written to.
WorkerPaths == Range(HistoryDests) \cup {DaoStr}

\* The states of the loop after which no cycle follows: the natural end, the
\* end per terminate sentinel, and an exception nothing catches.
Ended == {"terminated", "terminated per signal", "raised"}

\* cancel_child_maestros: the loop runs over the keys of running_maestros,
\* which are request id strings, and indexes each with "run_path": with any
\* study running this raises TypeError before a command is issued; with none
\* there is nothing to do.
cancel_child_maestros(maestros) ==
    IF maestros = <<>>
    THEN [raised |-> FALSE, cancelled |-> {}]
    ELSE [raised |-> TRUE, cancelled |-> {}]

\* The entry with which a launch is logged.
LaunchEntryWithResult(f) == Tup(f.rid, f.desc, "RUNNING", ParsedResult)

LaunchEntry(f) == Tup(f.rid, f.desc, "RUNNING", None)

\* running_maestros after the files of a listing were launched, from the
\* i-th on.
RECURSIVE LaunchAll(_, _, _, _)
LaunchAll(maestros, files, log_global, i) ==
    IF i > Len(files) THEN maestros
    ELSE LaunchAll(PutMaestro(maestros,
                              [request_id |-> files[i].rid,
                               run_descriptors |-> files[i].desc,
                               log_global |-> log_global,
                               retcode |-> None]),
                   files, log_global, i + 1)

\* The entries of a monitor_and_log that go to every destination.
GlobalEntriesUnfiltered(tups, maestros) == tups

\* The entries of a monitor_and_log that go to the global history file and
\* the record store: those of the studies launched with log_global.
GlobalEntries(tups, maestros) ==
    SelectSeq(tups, LAMBDA t :
        \E i \in DOMAIN maestros :
            maestros[i].request_id = t.rid /\ maestros[i].log_global)

\* The studies a monitor_and_log removes only when they have finished well.
RemainingKeepsFailed(maestros, tups) ==
    SelectSeq(maestros, LAMBDA m :
        \A i \in 1..Len(tups) : tups[i].rid = m.request_id => tups[i].status # "FINISHED")

\* running_maestros after the keys to pop were deleted.
Remaining(maestros, tups) ==
    SelectSeq(maestros, LAMBDA m : \A i \in 1..Len(tups) : tups[i].rid # m.request_id)

\* for hf in the configured destinations: the call with the entries meant
\* for that destination, from the i-th destination on.
RECURSIVE LogEach(_, _, _, _, _)
LogEach(files, pending_log_actions, tups_of, outcomes, i) ==
    IF i > Len(valid_hfs) THEN [files |-> files, pending |-> pending_log_actions]
    ELSE LET hf == valid_hfs[i]
             res == _append_to_history_with_pending_logging(
                        hf, files[hf], tups_of[hf], pending_log_actions, outcomes[hf])
         IN  LogEach([files EXCEPT ![hf] = res.file], res.pending, tups_of, outcomes,
                     i + 1)

\* What the environment does to one call of the worker: every lock
\* acquisition (or the database write) succeeds, or every one times out
\* (fails).
WorkerCallOutcomes == {"ok", "timeout"}

\* The outcomes of those calls; a call with nothing to write to an existing
\* destination asks for no lock.
WorkerOutcomes(tups_of) ==
    { o \in [configured -> WorkerCallOutcomes] :
        \A hf \in configured :
            (/\ histories[hf].exists
             /\ tups_of[hf] = <<>>
             /\ PendingOf(pending_logs, hf) = <<>>) => o[hf] = "ok" }

\* The decision rule without the flag.
DecisionDueIgnoresFlag(maestros, flag) == maestros = <<>>

\* if not running_maestros and not last_was_decision
DecisionDue(maestros, flag) == maestros = <<>> /\ ~flag

\* The termination test without the look at running_maestros.
NothingLeftIgnoresRunning(maestros, flag, requests) == flag /\ requests = {}

\* The termination test without the fresh look into the inbox.
NothingLeftIgnoresInbox(maestros, flag, requests) == maestros = <<>> /\ flag

\* if not running_maestros and last_was_decision and not
\* list_requested_studies(inbox, FILE_TYPE)
NothingLeft(maestros, flag, requests) == maestros = <<>> /\ flag /\ requests = {}

\* The path the cleanup logging for key ki of pending_logs writes to: ki is
\* a string, so the key of the DAO is taken for a file path as well.
PathOf(ki) == IF ki = "database_access_obj" THEN DaoStr ELSE ki

\* What one call of the cleanup logging can do: the outcomes of a call on a
\* history file, or an exception, which is caught.
DrainOutcomes == WorkerCallOutcomes \cup {"raised"}

\* for ki in k_in_pending_logs: the cleanup call, from the i-th key on.
RECURSIVE Drain(_, _, _, _, _)
Drain(files, pending_log_actions, tried, outcomes, i) ==
    IF i > Len(HistoryDests)
    THEN [files |-> files, pending |-> pending_log_actions, tried |-> tried]
    ELSE LET ki == HistoryDests[i]
             p == PathOf(ki)
             loc_dict == _get_latest_logging_actions(pending_log_actions, ki, <<>>)
             res == _append_to_history(files[p], loc_dict, outcomes[ki])
         IN  IF ki \notin DOMAIN pending_log_actions
             THEN Drain(files, pending_log_actions, tried, outcomes, i + 1)
             ELSE IF outcomes[ki] = "raised"
             THEN Drain(files, pending_log_actions, tried \cup {p}, outcomes, i + 1)
             ELSE Drain([files EXCEPT ![p] = res.file],
                        _update_pending_log_actions(pending_log_actions, res.retcode,
                                                    ki, loc_dict),
                        tried \cup {p}, outcomes, i + 1)

\* The worker when its set-up is done: nothing lies in the inbox yet, nothing
\* runs, no history is written; the DAO exists when a database url
\* was given and the connection was made, and is None otherwise. The global
\* history is a file or the record store, not both.
WorkerStart ==
    /\ inbox = {}
    /\ outbox = {}
    /\ study_files = <<>> /\ sfi = 0
    /\ running_maestros = <<>>
    /\ Popen = [r \in WorkerRids |-> "not started"]
    /\ results_yaml = [r \in WorkerRids |-> FALSE]
    /\ request_ids_launching = <<>>
    /\ polled = <<>> /\ keys_to_pop = <<>>
    /\ histories = [p \in WorkerPaths |->
                       [exists |-> p = "database_access_obj",
                        history |-> [r \in WorkerRids |-> NoEntry]]]
    /\ args_database_url \in BOOLEAN
    /\ worker_dao \in (IF args_database_url THEN {None, "DAO"} ELSE {None})
    /\ worker_dao_conn = (IF worker_dao = None THEN None ELSE "open")
    /\ configured \in { c \in SUBSET Range(HistoryDests) :
                          /\ "local_history_file" \in c
                          /\ "database_access_obj" \in c <=> worker_dao # None
                          /\ "history_file" \in c => ~args_database_url }
    /\ pending_logs = EmptyPending
    /\ loop_pc = "cancel"
    /\ cycles = 0
    /\ started_from = <<>>
    /\ cancel_lock_path = FALSE /\ term_lock_path = FALSE
    /\ last_was_decision = FALSE
    /\ decision_study_exists \in BOOLEAN
    /\ cancel_lock = "absent" /\ termination_lock = "absent" /\ cancelled = {}
    /\ launches = [r \in WorkerRids |-> 0]
    /\ pops = [r \in WorkerRids |-> 0]
    /\ drained = {}
    /\ decided = FALSE
    /\ seen = NotSeen /\ unanswered = 0

\* What no step of the worker changes.
workerFixed == <<sfi, cycles, started_from, configured, args_database_url, worker_dao,
                 decision_study_exists, notWorkerVars>>

\* The top of the loop: the DAO is reconnected when there is one whose conn
\* is None, and the cancel sentinel is looked for. With the sentinel there,
\* its lock is acquired or times out; under the lock cancel_child_maestros is
\* called, and then the sentinel is removed. The loop goes on.
CheckCancel ==
    /\ loop_pc = "cancel"
    /\ \E connected \in BOOLEAN :
          worker_dao_conn' = IF worker_dao # None /\ worker_dao_conn = None /\ connected
                             THEN "open" ELSE worker_dao_conn
    /\ IF ~cancel_lock_path
       THEN /\ cancel_lock' = "absent" /\ cancelled' = {}
            /\ loop_pc' = "terminate"
            /\ UNCHANGED cancel_lock_path
       ELSE \E acquired \in BOOLEAN :
               LET c == cancel_child_maestros(running_maestros)
               IN  IF acquired
                   THEN /\ cancel_lock' = "acquired"
                        /\ cancelled' = c.cancelled
                        /\ cancel_lock_path' = c.raised
                        /\ loop_pc' = IF c.raised THEN "raised" ELSE "terminate"
                   ELSE /\ cancel_lock' = "timeout" /\ cancelled' = {}
                        /\ loop_pc' = "terminate"
                        /\ UNCHANGED cancel_lock_path
    /\ UNCHANGED <<inbox, outbox, study_files, running_maestros, Popen, results_yaml,
                   request_ids_launching, polled, keys_to_pop, histories, pending_logs,
                   term_lock_path, last_was_decision, termination_lock, launches, pops,
                   drained, decided, seen, unanswered, workerFixed>>

\* The terminate sentinel is looked for: as above, and after the removal of
\* the sentinel the loop is left.
CheckTerminate ==
    /\ loop_pc = "terminate"
    /\ IF ~term_lock_path
       THEN /\ termination_lock' = "absent"
            /\ loop_pc' = "monitor"
            /\ UNCHANGED <<term_lock_path, cancelled>>
       ELSE \E acquired \in BOOLEAN :
               LET c == cancel_child_maestros(running_maestros)
               IN  IF acquired
                   THEN /\ termination_lock' = "acquired"
                        /\ cancelled' = cancelled \cup c.cancelled
                        /\ term_lock_path' = c.raised
                        /\ loop_pc' = IF c.raised THEN "raised"
                                      ELSE "terminated per signal"
                   ELSE /\ termination_lock' = "timeout"
                        /\ loop_pc' = "monitor"
                        /\ UNCHANGED <<term_lock_path, cancelled>>
    /\ UNCHANGED <<inbox, outbox, study_files, running_maestros, Popen, results_yaml,
                   request_ids_launching, polled, keys_to_pop, histories, pending_logs,
                   cancel_lock_path, worker_dao_conn, last_was_decision, cancel_lock,
                   launches, pops, drained, decided, seen, unanswered, workerFixed>>

\* monitor_and_log: every maestro is polled; the entries of the finished ones
\* go to the global destinations when the study was launched with
\* log_global, and all go to the local history; the finished are removed,
\* and their Popen objects with them. A Timeout of the lock of a results.yaml
\* is not caught.
Monitor ==
    /\ loop_pc = "monitor"
    /\ LET retcodes == [i \in DOMAIN running_maestros |->
                           Popen[running_maestros[i].request_id]]
           tups == KeysToPop(running_maestros, retcodes, 1)
           tups_of == [hf \in Range(HistoryDests) |->
                          IF hf = "local_history_file" THEN tups
                          ELSE GlobalEntries(tups, running_maestros)]
       IN  \E loaded \in BOOLEAN :
              IF ~loaded /\ \E i \in DOMAIN retcodes : retcodes[i] = "0"
              THEN /\ loop_pc' = "raised"
                   /\ UNCHANGED <<polled, keys_to_pop, histories, pending_logs,
                                  running_maestros, Popen, pops>>
              ELSE /\ polled' = [i \in DOMAIN running_maestros |->
                                    [request_id |-> running_maestros[i].request_id,
                                     retcode |-> retcodes[i]]]
                   /\ keys_to_pop' = tups
                   /\ \E outcomes \in WorkerOutcomes(tups_of) :
                         LET res == LogEach(histories, pending_logs, tups_of, outcomes, 1)
                         IN  histories' = res.files /\ pending_logs' = res.pending
                   /\ running_maestros' = Remaining(running_maestros, tups)
                   /\ Popen' = [r \in WorkerRids |->
                                   IF \E i \in DOMAIN tups : tups[i].rid = r
                                   THEN "not started" ELSE Popen[r]]
                   /\ pops' = [r \in WorkerRids |->
                                  pops[r] + Cardinality({i \in DOMAIN tups : tups[i].rid = r})]
                   /\ loop_pc' = "launch"
    /\ UNCHANGED <<inbox, outbox, study_files, results_yaml,
                   request_ids_launching, cancel_lock_path, term_lock_path,
                   worker_dao_conn, last_was_decision, cancel_lock, termination_lock,
                   cancelled, launches, drained, decided, seen, unanswered, workerFixed>>

\* The inbox is listed, which clears last_was_decision when a request is
\* found, and launch_requested_studies is called: each file is moved to the
\* outbox and its maestro started, and the launches are logged as RUNNING to
\* every destination. A Timeout of the lock of the first file is not caught.
Launch ==
    /\ loop_pc = "launch"
    /\ \E listing \in Listings(inbox), renamed \in BOOLEAN :
          LET tups == [i \in DOMAIN listing |-> LaunchEntry(listing[i])]
              rids == { listing[i].rid : i \in DOMAIN listing }
          IN  /\ study_files' = listing
              /\ last_was_decision' = IF listing # <<>> THEN FALSE ELSE last_was_decision
              /\ seen' = [seen EXCEPT !.flag_at_scan = last_was_decision]
              /\ unanswered' = IF listing # <<>> THEN 0 ELSE unanswered
              /\ IF listing # <<>> /\ ~renamed
                 THEN /\ loop_pc' = "raised"
                      /\ UNCHANGED <<inbox, outbox, running_maestros, Popen, results_yaml,
                                     request_ids_launching, histories, pending_logs,
                                     launches>>
                 ELSE /\ inbox' = {}
                      /\ outbox' = outbox \cup inbox
                      /\ running_maestros' = LaunchAll(running_maestros, listing, TRUE, 1)
                      /\ Popen' = [r \in WorkerRids |-> IF r \in rids THEN None ELSE Popen[r]]
                      /\ results_yaml' = [r \in WorkerRids |->
                                             IF r \in rids THEN FALSE ELSE results_yaml[r]]
                      /\ launches' = [r \in WorkerRids |->
                                         IF r \in rids THEN launches[r] + 1 ELSE launches[r]]
                      /\ request_ids_launching' = tups
                      /\ \E outcomes \in WorkerOutcomes([hf \in Range(HistoryDests) |-> tups]) :
                            LET res == LogToAll(histories, pending_logs, tups, outcomes, 1)
                            IN  histories' = res.files /\ pending_logs' = res.pending
                      /\ loop_pc' = "decide"
    /\ UNCHANGED <<polled, keys_to_pop, cancel_lock_path, term_lock_path,
                   worker_dao_conn, cancel_lock, termination_lock, cancelled, pops,
                   drained, decided, workerFixed>>

\* The decision rule: with nothing running and the flag down the flag is
\* raised, and decision_study.yaml, when it exists, is launched from where
\* it lies, with log_global False and no destination to log the launch to.
Decide ==
    /\ loop_pc = "decide"
    /\ IF DecisionDue(running_maestros, last_was_decision)
       THEN /\ last_was_decision' = TRUE
            /\ IF decision_study_exists
               THEN LET r == IMPROV_DECISION_STUDY.rid
                    IN  /\ running_maestros' =
                               LaunchAll(running_maestros, <<IMPROV_DECISION_STUDY>>,
                                         FALSE, 1)
                        /\ Popen' = [Popen EXCEPT ![r] = None]
                        /\ results_yaml' = [results_yaml EXCEPT ![r] = FALSE]
                        /\ launches' = [launches EXCEPT ![r] = launches[r] + 1]
                        /\ decided' = TRUE
                        /\ unanswered' = unanswered + 1
               ELSE UNCHANGED <<running_maestros, Popen, results_yaml, launches, decided,
                                unanswered>>
       ELSE UNCHANGED <<last_was_decision, running_maestros, Popen, results_yaml,
                        launches, decided, unanswered>>
    /\ seen' = [seen EXCEPT !.idle = (running_maestros = <<>>),
                            !.flag = last_was_decision]
    /\ loop_pc' = "break_or_sleep"
    /\ UNCHANGED <<inbox, outbox, study_files, request_ids_launching, polled,
                   keys_to_pop, histories, pending_logs, cancel_lock_path,
                   term_lock_path, worker_dao_conn, cancel_lock, termination_lock,
                   cancelled, pops, drained, workerFixed>>

\* Either break or sleep: with nothing running, the flag up and nothing in
\* the inbox now, the cleanup logging is done for every key of pending_logs
\* and the loop is left; otherwise the DAO is disconnected, which closes
\* conn and leaves it in place, and the daemon sleeps. What is kept of the
\* cycle for the properties is forgotten when the next begins.
BreakOrSleep ==
    /\ loop_pc = "break_or_sleep"
    /\ IF NothingLeft(running_maestros, last_was_decision, inbox)
       THEN /\ \E outcomes \in { o \in [Range(HistoryDests) -> DrainOutcomes] :
                                   \A ki \in Range(HistoryDests) \ DOMAIN pending_logs :
                                       o[ki] = "ok" } :
                  LET res == Drain(histories, pending_logs, {}, outcomes, 1)
                  IN  /\ histories' = res.files
                      /\ pending_logs' = res.pending
                      /\ drained' = res.tried
            /\ loop_pc' = "terminated"
            /\ UNCHANGED <<worker_dao_conn, study_files, request_ids_launching, polled,
                           keys_to_pop, cancel_lock, termination_lock, cancelled,
                           decided, seen>>
       ELSE /\ worker_dao_conn' = IF worker_dao # None THEN "closed" ELSE worker_dao_conn
            /\ loop_pc' = "cancel"
            /\ study_files' = <<>> /\ request_ids_launching' = <<>>
            /\ polled' = <<>> /\ keys_to_pop' = <<>>
            /\ cancel_lock' = "absent" /\ termination_lock' = "absent"
            /\ cancelled' = {} /\ decided' = FALSE /\ seen' = NotSeen
            /\ UNCHANGED <<histories, pending_logs, drained>>
    /\ UNCHANGED <<inbox, outbox, running_maestros, Popen, results_yaml,
                   cancel_lock_path, term_lock_path, last_was_decision, launches, pops,
                   unanswered, workerFixed>>

\* What the loop leaves alone.
workerEnvFixed == <<outbox, study_files, running_maestros, request_ids_launching,
                    polled, keys_to_pop, histories, pending_logs, loop_pc,
                    worker_dao_conn, last_was_decision, cancel_lock, termination_lock,
                    cancelled, launches, pops, drained, decided, seen, unanswered,
                    workerFixed>>

\* The steps of the environment are taken where the loop next reads what
\* they change: the exit of a child and the sentinels at the top of the loop,
\* a request file there and before the inbox is looked into again.

\* A child maestro exits, with or without a results.yaml in its run path;
\* the file is looked for after exit code 0 only.
ChildExits ==
    \E r \in WorkerRids, code \in ExitCodes, written \in BOOLEAN :
        /\ loop_pc = "cancel"
        /\ code # "0" => ~written
        /\ Popen[r] = None
        /\ Popen' = [Popen EXCEPT ![r] = code]
        /\ results_yaml' = [results_yaml EXCEPT ![r] = written]
        /\ UNCHANGED <<inbox, cancel_lock_path, term_lock_path, workerEnvFixed>>

\* The decision study, or anyone, puts a request file into the inbox.
RequestArrives ==
    \E f \in WorkerFiles :
        /\ loop_pc \in {"cancel", "break_or_sleep"}
        /\ f \notin inbox \cup outbox
        /\ inbox' = inbox \cup {f}
        /\ UNCHANGED <<Popen, results_yaml, cancel_lock_path, term_lock_path,
                       workerEnvFixed>>

\* improv cancel: the cancel sentinel is created.
CancelRequested ==
    /\ loop_pc = "cancel"
    /\ ~cancel_lock_path
    /\ cancel_lock_path' = TRUE
    /\ UNCHANGED <<inbox, Popen, results_yaml, term_lock_path, workerEnvFixed>>

\* The decision study creates the terminate sentinel.
TerminateRequested ==
    /\ loop_pc = "cancel"
    /\ ~term_lock_path
    /\ term_lock_path' = TRUE
    /\ UNCHANGED <<inbox, Popen, results_yaml, cancel_lock_path, workerEnvFixed>>

InitWorker ==
    /\ LogInit
    /\ PrecIdle
    /\ DetIdle
    /\ WorkerStart
    /\ UtilIdle

NextWorker ==
    \/ CheckCancel
    \/ CheckTerminate
    \/ Monitor
    \/ Launch
    \/ Decide
    \/ BreakOrSleep
    \/ ChildExits
    \/ RequestArrives
    \/ CancelRequested
    \/ TerminateRequested

SpecWorker == InitWorker /\ [][NextWorker]_vars

\* r is in running_maestros.
InRunning(r) == \E i \in DOMAIN running_maestros : running_maestros[i].request_id = r

\* monitor_and_log of this cycle has just returned.
JustMonitored == loop_pc = "launch"

\* The entries the monitor_and_log of this cycle made for request r.
TerminalEntries(r) == { i \in DOMAIN keys_to_pop : keys_to_pop[i].rid = r }

\* C21: a study is in the active set from each of its launches to its one
\* removal; a monitor_and_log removes exactly the studies whose poll returned
\* an exit code, with exactly one FINISHED or FAILED entry each, and leaves
\* the others without an entry; so no study is polled, entered or removed
\* again after its removal.
C21_RemovedOnce ==
    loop_pc # "idle" =>
        /\ \A r \in WorkerRids :
              /\ InRunning(r) => launches[r] = pops[r] + 1
              /\ ~InRunning(r) => launches[r] = pops[r]
        /\ JustMonitored =>
              /\ \A i \in DOMAIN polled :
                    LET r == polled[i].request_id
                    IN  IF polled[i].retcode = None
                        THEN InRunning(r) /\ TerminalEntries(r) = {}
                        ELSE /\ ~InRunning(r)
                             /\ Cardinality(TerminalEntries(r)) = 1
                             /\ \A j \in TerminalEntries(r) :
                                   keys_to_pop[j].status \in {"FINISHED", "FAILED"}
              /\ \A j \in DOMAIN keys_to_pop :
                    \E i \in DOMAIN polled :
                        /\ polled[i].request_id = keys_to_pop[j].rid
                        /\ polled[i].retcode # None

\* A later cycle's monitor_and_log has polled the decision study, r3 having
\* been launched, polled with an exit code and removed before.
C21_Witness ==
    /\ JustMonitored
    /\ launches["r3"] = 1 /\ pops["r3"] = 1
    /\ polled # <<>>
    /\ \A i \in DOMAIN polled : polled[i].request_id # "r3"

\* The decision rule of this cycle has just been passed.
JustDecided == loop_pc = "break_or_sleep"

\* At the decision rule of this cycle nothing ran and last_was_decision was
\* false.
FoundDue == seen.idle /\ ~seen.flag

Terminated == loop_pc = "terminated"

\* Nothing runs, last_was_decision is set and no request file is in the
\* inbox.
Quiescent == running_maestros = <<>> /\ last_was_decision /\ inbox = {}

\* C23: the loop is left at the termination test only with nothing running,
\* last_was_decision set and the inbox empty as listed at the test; and a
\* cycle that found all three did not go on to sleep.
C23_NaturalTermination ==
    /\ Terminated => Quiescent
    /\ loop_pc \in {"cancel", "terminate", "monitor"} => ~Quiescent

\* The loop was left at the termination test after r3 and the decision
\* study were launched and removed.
C23_Witness ==
    /\ Terminated
    /\ pops["r3"] = 1 /\ pops[IMPROV_DECISION_STUDY.rid] >= 1

\* C24: when the loop is left at the termination test, every path the
\* cleanup logging wrote or tried to write to is one of the configured
\* destinations, the record store included, and every destination that still
\* has pending entries was tried.
C24_TerminationDrain ==
    Terminated =>
        /\ drained \subseteq configured
        /\ DOMAIN pending_logs \subseteq drained

\* Every study in running_maestros was sent maestro cancel in this cycle.
AllCancelled ==
    \A i \in DOMAIN running_maestros : running_maestros[i].request_id \in cancelled

\* C25: in the cycle in which the lock of the cancel sentinel was acquired
\* the sentinel is gone, and right after the check every running study has
\* been sent the cancellation; in a cycle in which the acquisition timed
\* out the sentinel is still there, no study was sent anything, and the loop
\* goes on to the terminate sentinel.
C25_CancelSentinel ==
    /\ cancel_lock = "acquired" =>
          /\ ~cancel_lock_path
          /\ loop_pc = "terminate" => AllCancelled
    /\ cancel_lock = "timeout" =>
          /\ cancel_lock_path
          /\ loop_pc = "terminate" => cancelled = {}
          /\ loop_pc # "cancel"

\* C26: in the cycle in which the lock of the terminate sentinel was
\* acquired every running study has been sent the cancellation, the sentinel
\* is gone and the loop has been left, with no poll, no launch and no
\* decision study in that cycle; after a timeout of the acquisition the
\* sentinel is still there and the loop has not been left for it.
C26_TerminateSentinel ==
    /\ termination_lock = "acquired" =>
          /\ AllCancelled
          /\ ~term_lock_path
          /\ loop_pc = "terminated per signal"
          /\ polled = <<>> /\ study_files = <<>> /\ ~decided
    /\ termination_lock = "timeout" =>
          /\ term_lock_path
          /\ loop_pc # "terminated per signal"

\* C27: in the cycle in which the cancel sentinel was handled, its lock
\* acquired, the loop has been left and neither a request nor the decision
\* study was launched.
C27_CancelEndsLoop ==
    cancel_lock = "acquired" =>
        /\ loop_pc \in Ended
        /\ request_ids_launching = <<>> /\ ~decided

\* The destinations shared with other workers.
SharedDests == {"history_file", "database_access_obj"}

\* Destination hf holds an entry of request r, or has one pending.
WrittenOrQueued(hf, r) ==
    \/ histories[hf].history[r] # NoEntry
    \/ \E i \in DOMAIN PendingOf(pending_logs, hf) : PendingOf(pending_logs, hf)[i].rid = r

\* C28: no shared destination ever holds an entry of the decision study,
\* the study launched with log_global False, or has one pending.
C28_LocalOnly ==
    loop_pc # "idle" =>
        \A hf \in SharedDests : ~WrittenOrQueued(hf, IMPROV_DECISION_STUDY.rid)

\* The decision study has ended and is entered in the local history, while
\* a shared destination is configured and holds the entry of r3.
C28_Witness ==
    /\ histories["local_history_file"].history[IMPROV_DECISION_STUDY.rid].status
           \in {"FINISHED", "FAILED"}
    /\ \E hf \in SharedDests \cap configured : histories[hf].history["r3"] # NoEntry

\* C29: with a database url given, every request the worker has launched
\* from the inbox has an entry in the record store or pending for it, also
\* when the record store could not be reached at start-up.
C29_OutageRecoverable ==
    args_database_url =>
        \A f \in WorkerFiles :
            launches[f.rid] >= 1 => WrittenOrQueued("database_access_obj", f.rid)

\* The entries the worker has made in this cycle, has pending, or has
\* written to a destination.
AllEntries ==
    Range(keys_to_pop) \cup Range(request_ids_launching)
    \cup UNION { Range(pending_logs[ki]) : ki \in DOMAIN pending_logs }
    \cup { histories[p].history[r] : p \in WorkerPaths, r \in WorkerRids }

\* C30: an entry made, pending or written carries a result only with status
\* FINISHED or FAILED; an entry with status RUNNING carries the result None.
C30_ResultOnlyWhenEnded ==
    loop_pc # "idle" =>
        \A e \in AllEntries :
            /\ e.result # None => e.status \in {"FINISHED", "FAILED"}
            /\ e.status = "RUNNING" => e.result = None

\* r3 is entered as FINISHED with its result in the local history, while a
\* shared destination still holds its RUNNING entry and has the FINISHED one
\* pending.
C30_Witness ==
    /\ histories["local_history_file"].history["r3"] = Tup("r3", "d1", "FINISHED", ParsedResult)
    /\ \E hf \in SharedDests \cap configured :
          /\ histories[hf].history["r3"] = Tup("r3", "d1", "RUNNING", None)
          /\ Tup("r3", "d1", "FINISHED", ParsedResult) \in Range(PendingOf(pending_logs, hf))

\* ================================================ the reconciler on its own
\* The entries a caller hands in for one request id: any status, with or
\* without a result, and an entry whose descriptors differ from the others'.
ReconcileTups ==
    { t \in StudyTups :
        /\ t.rid = "r1"
        /\ t.desc = "d2" => (t.status = "RUNNING" /\ t.result = None) }

\* The batches of one call.
IncomingBatches == UNION { [1..n -> ReconcileTups] : n \in 0..MaxBatch }

\* The history destination of these calls.
HistoryDestStr == "hist"

\* Two entries of one request id of which one dominates the other, or which
\* are identical.
Redundant(tup_i, tup_j) ==
    \/ _study_tup_g_precedence(tup_i, tup_j)
    \/ _study_tup_g_precedence(tup_j, tup_i)
    \/ _study_tup_identity(tup_i, tup_j)

ReconcileStart ==
    /\ PendingQueue = EmptyPending
    /\ history_path = NoFile
    /\ reconciled = NoReconcile
    /\ elim_arg = <<>> /\ elim_pc = "idle" /\ elim_kept = {} /\ elim_ret = <<>>
    /\ db_recs = {} /\ db_rels = {} /\ db_pc = "idle"
    /\ db_studies = <<>> /\ appended = <<>>
    /\ db_call = NoDbCall
    /\ QuotaIdle /\ ParetoIdle

\* One call of _append_to_history_with_pending_logging: the batch is merged
\* with the pending entries, the append succeeds or meets a lock timeout, and
\* the pending log actions are updated with the retcode.
ReconcileAndFlush ==
    \E tups \in IncomingBatches, outcome \in CallOutcomes :
        LET prior == PendingOf(PendingQueue, HistoryDestStr)
            loc_dict == _get_latest_logging_actions(PendingQueue, HistoryDestStr, tups)
            res == _append_to_history(history_path, loc_dict, outcome)
        IN  /\ outcome = "late_timeout" => ~history_path.exists
            /\ (history_path.exists /\ loc_dict = <<>>) => outcome = "ok"
            /\ history_path' = res.file
            /\ PendingQueue' = _update_pending_log_actions(
                                   PendingQueue, res.retcode, HistoryDestStr, loc_dict)
            /\ reconciled' =
                   [retcode |-> res.retcode,
                    overlap |-> \E i \in DOMAIN prior : \E j \in DOMAIN tups :
                                    Redundant(prior[i], tups[j])]
            /\ UNCHANGED <<elim_arg, elim_pc, elim_kept, elim_ret,
                           db_recs, db_rels, db_pc, db_studies, appended, db_call,
                           moreVars>>
            /\ UNCHANGED <<logVars, precVars, detVars, loopVars, workerVars>>

InitReconcile ==
    /\ LogInit
    /\ PrecIdle
    /\ DetIdle
    /\ LoopIdle
    /\ WorkerIdle
    /\ ReconcileStart

NextReconcile == ReconcileAndFlush

SpecReconcile == InitReconcile /\ [][NextReconcile]_vars

\* ------------------------------------------------------------------ C31
\* C31: after any sequence of reconcile-and-flush calls that started with an
\* empty queue, the pending list of the destination holds no two entries of
\* one request id of which one dominates the other or which are identical.
C31_OneActivePerRequest ==
    \A i, j \in DOMAIN PendingOf(PendingQueue, HistoryDestStr) :
        i # j => ~Redundant(PendingOf(PendingQueue, HistoryDestStr)[i],
                            PendingOf(PendingQueue, HistoryDestStr)[j])

\* A failed commit whose batch met pending entries of its request id, with
\* two entries of that request id pending afterwards.
C31_Witness ==
    /\ reconciled.retcode = 1 /\ reconciled.overlap
    /\ Len(PendingOf(PendingQueue, HistoryDestStr)) >= 2

\* ============================================ _elim_from_stat_dict on its own
\* Entries of a status dictionary handed to one call.
MaxList == 3

\* The entries of the list: for one request id every descriptor, status and
\* result; for a second one an entry without result, running or failed.
ElimTups ==
    { t \in StudyTups :
        t.rid = "r2" => /\ t.desc = "d1" /\ t.result = None
                        /\ t.status \in {"RUNNING", "FAILED"} }

ElimStart ==
    /\ PendingQueue = EmptyPending
    /\ history_path = NoFile
    /\ reconciled = NoReconcile
    /\ elim_arg \in UNION { [1..n -> ElimTups] : n \in 0..MaxList }
    /\ elim_pc = "called" /\ elim_kept = {} /\ elim_ret = <<>>
    /\ db_recs = {} /\ db_rels = {} /\ db_pc = "idle"
    /\ db_studies = <<>> /\ appended = <<>>
    /\ db_call = NoDbCall
    /\ QuotaIdle /\ ParetoIdle

\* _elim_from_stat_dict(dict_a): dict_b is None.
ElimAlone ==
    /\ elim_pc = "called"
    /\ elim_kept' = DOMAIN elim_arg \ ToEliminate(elim_arg, <<>>, 1, {})
    /\ elim_ret' = _elim_from_stat_dict(elim_arg, <<>>)
    /\ elim_pc' = "returned"
    /\ UNCHANGED <<elim_arg, PendingQueue, history_path, reconciled,
                   db_recs, db_rels, db_pc, db_studies, appended, db_call,
                   moreVars>>
    /\ UNCHANGED <<logVars, precVars, detVars, loopVars, workerVars>>

InitElim ==
    /\ LogInit
    /\ PrecIdle
    /\ DetIdle
    /\ LoopIdle
    /\ WorkerIdle
    /\ ElimStart

NextElim == ElimAlone

SpecElim == InitElim /\ [][NextElim]_vars

\* ------------------------------------------------------------------ C32
\* The indices of the entries identical to the i-th.
IdenticalTo(i) ==
    { j \in DOMAIN elim_arg : _study_tup_identity(elim_arg[i], elim_arg[j]) }

\* C32: _elim_from_stat_dict applied to a list alone leaves an entry for each
\* request id of the list; of several identical entries it keeps the last
\* and no other; and of two entries of which only one dominates the other it
\* keeps the dominant one.
C32_SelfDedupSurvivor ==
    elim_pc = "returned" =>
        /\ RidsOf(elim_arg) \subseteq RidsOf(elim_ret)
        /\ \A i \in DOMAIN elim_arg :
              Cardinality(IdenticalTo(i)) > 1 =>
                  elim_kept \cap IdenticalTo(i) =
                      { CHOOSE j \in IdenticalTo(i) : \A k \in IdenticalTo(i) : k <= j }
        /\ \A i, j \in DOMAIN elim_arg :
              StrictlyDominates(elim_arg[j], elim_arg[i]) => j \in elim_kept

\* ============================================== logging to the record store
\* The request files the daemon launches, in the order it finds them, and the
\* daemon's id (args.id).
DbFiles == << [rid |-> "r1", desc |-> "d1"], [rid |-> "r2", desc |-> "d1"] >>
args_id == "w1"

\* The calls of the DAO that write or read the store; a lost connection makes
\* one of them raise.
DaoCalls == {"recs.get", "recs.update", "recs.insert(request)",
             "rels.insert(requests)", "recs.insert(result)", "rels.insert(yields)"}

RecordIds(stored) == { rec.id : rec \in stored }

\* create_request_from_data, and the Record and Relationship of set_result.
RequestRecord(reqid, req_data) ==
    [id |-> reqid, type |-> "request", status |-> req_data.status,
     run_descriptors |-> req_data.run_descriptors, data |-> None]
ResultRecord(reqid, res_data) ==
    [id |-> reqid \o "_result", type |-> "result", status |-> None,
     run_descriptors |-> None, data |-> res_data]
Relationship(subject_id, predicate, object_id) ==
    [subject_id |-> subject_id, predicate |-> predicate, object_id |-> object_id]

\* What a call of the DAO leaves: the store and the exception raised, if any.
Left(stored, related, raised) ==
    [recs |-> stored, rels |-> related, raised |-> raised]

\* DAO.set_request: the record is inserted; an id that is there already
\* makes the insert raise.
set_request(st, reqid, req_data, fail) ==
    IF fail = "recs.insert(request)" THEN Left(st.recs, st.rels, "OperationalError")
    ELSE IF reqid \in RecordIds(st.recs) THEN Left(st.recs, st.rels, "IntegrityError")
    ELSE Left(st.recs \cup {RequestRecord(reqid, req_data)}, st.rels, "no")

\* DAO.update_request: the request must be the subject of no relationship;
\* its status and descriptors are replaced.
update_request(st, reqid, req_data, fail) ==
    IF fail = "recs.update" THEN Left(st.recs, st.rels, "OperationalError")
    ELSE IF \E rel \in st.rels : rel.subject_id = reqid
    THEN Left(st.recs, st.rels, "AssertionError")
    ELSE Left({ rec \in st.recs : rec.id # reqid } \cup {RequestRecord(reqid, req_data)},
              st.rels, "no")

\* DAO.set_result: the result record is inserted, then the "yields"
\* relationship.
set_result(st, reqid, res_data, fail) ==
    IF fail = "recs.insert(result)" THEN Left(st.recs, st.rels, "OperationalError")
    ELSE IF (reqid \o "_result") \in RecordIds(st.recs)
    THEN Left(st.recs, st.rels, "IntegrityError")
    ELSE IF fail = "rels.insert(yields)"
    THEN Left(st.recs \cup {ResultRecord(reqid, res_data)}, st.rels, "OperationalError")
    ELSE Left(st.recs \cup {ResultRecord(reqid, res_data)},
              st.rels \cup {Relationship(reqid, "yields", reqid \o "_result")}, "no")

\* The try block of append_single_record_to_db.
AppendTry(st, tup, fail) ==
    IF fail = "recs.get" THEN Left(st.recs, st.rels, "OperationalError")
    ELSE IF tup.rid \notin RecordIds(st.recs) THEN Left(st.recs, st.rels, "ValueError")
    ELSE LET updated == update_request(st, tup.rid,
                            [status |-> tup.status, run_descriptors |-> tup.desc], fail)
         IN  IF updated.raised # "no" \/ tup.result = None THEN updated
             ELSE set_result(updated, tup.rid, tup.result, fail)

\* The except block: the first insertion of the request, the relationship
\* from the requester if one was given, and the result.
AppendExcept(st, tup, requester, fail) ==
    LET inserted == set_request(st, tup.rid,
                        [status |-> tup.status, run_descriptors |-> tup.desc], fail)
        related == IF requester = None THEN inserted
                   ELSE IF fail = "rels.insert(requests)"
                   THEN Left(inserted.recs, inserted.rels, "OperationalError")
                   ELSE Left(inserted.recs,
                             inserted.rels \cup {Relationship(requester, "requests", tup.rid)},
                             "no")
    IN  IF inserted.raised # "no" THEN inserted
        ELSE IF related.raised # "no" \/ tup.result = None THEN related
        ELSE set_result(related, tup.rid, tup.result, fail)

append_single_record_to_db(st, tup, requester, fail) ==
    LET tried == AppendTry(st, tup, fail)
    IN  IF tried.raised \in {"ValueError", "IntegrityError"}
        THEN AppendExcept(tried, tup, requester, fail)
        ELSE tried

\* The loop of _append_to_history_db from the i-th entry on, the connection
\* failing at call fail of entry fail_at.  done maps each request id to the
\* entry last appended for it; again collects what became of the entries
\* appended a second time in succession.
RECURSIVE AppendEach(_, _, _, _, _, _, _, _)
AppendEach(st, tups, requester, fail_at, fail, done, again, i) ==
    IF i > Len(tups)
    THEN [recs |-> st.recs, rels |-> st.rels, retcode |-> 0, done |-> done, again |-> again]
    ELSE LET now == append_single_record_to_db(
                        st, tups[i], requester, IF i = fail_at THEN fail ELSE "none")
             seen_again == IF done[tups[i].rid] = tups[i] /\ i # fail_at
                           THEN again \cup {[tup |-> tups[i], raised |-> now.raised,
                                             same |-> now.recs = st.recs /\ now.rels = st.rels]}
                           ELSE again
         IN  IF now.raised # "no"
             THEN [recs |-> now.recs, rels |-> now.rels, retcode |-> 1,
                   done |-> [done EXCEPT ![tups[i].rid] = NoEntry], again |-> seen_again]
             ELSE AppendEach(now, tups, requester, fail_at, fail,
                             [done EXCEPT ![tups[i].rid] = tups[i]], seen_again, i + 1)

\* _append_to_history_with_pending_logging with the DAO as history_file.
LogToDb(tups, requester) ==
    LET loc_dict == _get_latest_logging_actions(PendingQueue, DaoStr, tups)
    IN  \E fail_at \in 0..Len(loc_dict), fail \in DaoCalls :
            LET res == AppendEach([recs |-> db_recs, rels |-> db_rels], loc_dict,
                                  requester, fail_at, fail, appended, {}, 1)
            IN  /\ db_recs' = res.recs
                /\ db_rels' = res.rels
                /\ appended' = res.done
                /\ PendingQueue' = _update_pending_log_actions(
                                       PendingQueue, res.retcode, DaoStr, loc_dict)
                /\ db_call' = [requester |-> requester, retcode |-> res.retcode,
                               reappended |-> res.again]

StoreStart ==
    /\ PendingQueue = EmptyPending
    /\ history_path = NoFile
    /\ reconciled = NoReconcile
    /\ elim_arg = <<>> /\ elim_pc = "idle" /\ elim_kept = {} /\ elim_ret = <<>>
    /\ db_recs = {} /\ db_rels = {}
    /\ db_pc = "monitor_and_log"
    /\ db_studies = [i \in DOMAIN DbFiles |-> "new"]
    /\ appended = [r \in Rids |-> NoEntry]
    /\ db_call = NoDbCall
    /\ QuotaIdle /\ ParetoIdle

storeFixed == <<history_path, reconciled, elim_arg, elim_pc, elim_kept, elim_ret,
                moreVars, logVars, precVars, detVars, loopVars, workerVars>>

\* The terminal entries of monitor_and_log for the studies whose process has
\* ended, in the order of running_maestros.
RECURSIVE DbKeysToPop(_, _)
DbKeysToPop(ended, i) ==
    IF i > Len(DbFiles) THEN <<>>
    ELSE (IF ended[i] = "running" THEN <<>>
          ELSE <<Tup(DbFiles[i].rid, DbFiles[i].desc, ended[i],
                     IF ended[i] = "FINISHED" THEN ParsedResult ELSE None)>>)
         \o DbKeysToPop(ended, i + 1)

\* monitor_and_log: the studies that ended are logged to the record store,
\* without a requester, and removed from running_maestros.
DbMonitor ==
    /\ db_pc = "monitor_and_log"
    /\ \E ended \in [DOMAIN DbFiles -> {"running", "FINISHED", "FAILED"}] :
          /\ \A i \in DOMAIN DbFiles : db_studies[i] # "running" => ended[i] = "running"
          /\ LogToDb(DbKeysToPop(ended, 1), None)
          /\ db_studies' = [i \in DOMAIN DbFiles |->
                               IF ended[i] = "running" THEN db_studies[i] ELSE "ended"]
    /\ db_pc' = "launch_requested_studies"
    /\ UNCHANGED storeFixed

\* launch_requested_studies: the next request files of the inbox are
\* launched and logged as RUNNING, with the daemon as requester.
DbLaunch ==
    /\ db_pc = "launch_requested_studies"
    /\ \E first \in 1..(Len(DbFiles) + 1), n \in 0..MaxLaunch :
          /\ \A i \in DOMAIN DbFiles : i < first <=> db_studies[i] # "new"
          /\ first + n - 1 <= Len(DbFiles)
          /\ LogToDb([k \in 1..n |-> Tup(DbFiles[first + k - 1].rid,
                                         DbFiles[first + k - 1].desc, "RUNNING", None)],
                     args_id)
          /\ db_studies' = [i \in DOMAIN DbFiles |->
                               IF i >= first /\ i < first + n THEN "running"
                               ELSE db_studies[i]]
    /\ db_pc' = "monitor_and_log"
    /\ UNCHANGED storeFixed

InitStore ==
    /\ LogInit
    /\ PrecIdle
    /\ DetIdle
    /\ LoopIdle
    /\ WorkerIdle
    /\ StoreStart

NextStore ==
    \/ DbMonitor
    \/ DbLaunch

SpecStore == InitStore /\ [][NextStore]_vars

\* ------------------------------------------------------------------ C33
\* C33: an entry with a terminal status and a result that is appended to the
\* record store a second time in succession, the connection holding, is
\* appended without an exception and leaves the store as it was.
C33_IdempotentCommit ==
    \A x \in db_call.reappended :
        (x.tup.status \in {"FINISHED", "FAILED"} /\ x.tup.result # None)
            => (x.raised = "no" /\ x.same)

\* ------------------------------------------------------------------ C40
\* C40: once a logging call of the daemon has returned success, every request
\* record in the record store has the relationship from the daemon's id by
\* "requests", whether the record was inserted at the launch or by a later
\* retry of the pending entries.
C40_RequesterKept ==
    db_call.retcode = 0 =>
        \A rec \in db_recs :
            rec.type = "request" =>
                Relationship(args_id, "requests", rec.id) \in db_rels

\* ===================================== the cycle and the decision study
\* The worker with a decision study and the local history only, no sentinel
\* being created; the decision study and the other children act at any
\* point of the cycle.
CycleStart ==
    /\ WorkerStart
    /\ decision_study_exists
    /\ ~args_database_url
    /\ configured = {"local_history_file"}

\* The decision study, while it runs, puts a request file into the inbox.
DecisionSubmits ==
    \E f \in WorkerFiles :
        /\ Popen[IMPROV_DECISION_STUDY.rid] = None
        /\ f \notin inbox \cup outbox
        /\ inbox' = inbox \cup {f}
        /\ UNCHANGED <<Popen, results_yaml, cancel_lock_path, term_lock_path,
                       workerEnvFixed>>

\* A child maestro exits, at any point of the daemon's cycle.
ProcessExits ==
    \E r \in WorkerRids, code \in ExitCodes, written \in BOOLEAN :
        /\ code # "0" => ~written
        /\ Popen[r] = None
        /\ Popen' = [Popen EXCEPT ![r] = code]
        /\ results_yaml' = [results_yaml EXCEPT ![r] = written]
        /\ UNCHANGED <<inbox, cancel_lock_path, term_lock_path, workerEnvFixed>>

InitCycle ==
    /\ LogInit
    /\ PrecIdle
    /\ DetIdle
    /\ CycleStart
    /\ UtilIdle

\* A step of the daemon.
CycleStep ==
    \/ CheckCancel
    \/ CheckTerminate
    \/ Monitor
    \/ Launch
    \/ Decide
    \/ BreakOrSleep

NextCycle ==
    \/ CycleStep
    \/ DecisionSubmits
    \/ ProcessExits

SpecCycle == InitCycle /\ [][NextCycle]_vars

\* ------------------------------------------------------------------ C34
\* The decision study is not running, and f has been put into the inbox:
\* only the running decision study does that, so it has exited since.
SubmittedAndExited(f) ==
    /\ f \in inbox \cup outbox
    /\ Popen[IMPROV_DECISION_STUDY.rid] # None

\* This cycle's monitor_and_log has removed the decision study.
DecisionPolled ==
    \E i \in DOMAIN keys_to_pop : keys_to_pop[i].rid = IMPROV_DECISION_STUDY.rid

\* C34: a request that the decision study put into the inbox before it
\* exited has been launched when the loop ends by the natural termination
\* check, wherever in the cycle the two events fell; and the cycle whose poll
\* removes the decision study launches it, since the inbox is listed after
\* the poll.
C34_PollBeforeScan ==
    \A f \in WorkerFiles :
        /\ (loop_pc = "terminated" /\ SubmittedAndExited(f)) => launches[f.rid] >= 1
        /\ (loop_pc = "decide" /\ DecisionPolled /\ SubmittedAndExited(f))
               => launches[f.rid] >= 1

\* The loop has ended naturally after the decision study put a request into
\* the inbox and exited, the request was launched and a second decision
\* study asked for nothing.
C34_Witness ==
    /\ loop_pc = "terminated"
    /\ \E f \in WorkerFiles : SubmittedAndExited(f) /\ launches[f.rid] = 1
    /\ launches[IMPROV_DECISION_STUDY.rid] = 2

\* ====================================== studies_have_been_run with a quota
\* int(quota_not_run * 1.5)
Batch(q) == (q * 3) \div 2

\* returned_run.count(False)
CountFalse(returned_run) ==
    Cardinality({ i \in DOMAIN returned_run : returned_run[i] = "False" })

\* A store of at most MaxExisting requests and a call of studies_have_been_run
\* on a list of proposed studies, with every quota and without one.
QuotaStart ==
    /\ \E store \in SUBSET ExistingPool :
          /\ Cardinality(store) <= MaxExisting
          /\ recs = { p.rec : p \in store }
          /\ rels = UNION { { <<a, p.rec.id>> : a \in p.requested_by } : p \in store }
    /\ agent_id \in {None, "ag1"}
    /\ proposed_studies = <<>> /\ quit_at = 0 /\ equality_params = <<>>
    /\ shbr_pc = "idle" /\ might_have_been_run = <<>>
    /\ existing_to_proposed_map = <<>> /\ shbr_ret = <<>>
    /\ study_recs \in ProposedLists
    /\ to_check = study_recs
    /\ quota_not_run \in {QuitNone} \cup 1..MaxCands
    /\ num_still_needed = (IF quota_not_run = QuitNone THEN 0 ELSE quota_not_run)
    /\ studies_exist = <<>>
    /\ shr_pc = "called"
    /\ CallsIdle /\ ParetoIdle

quotaFixed == <<study_recs, quota_not_run, pareto_recs, pareto_time, pareto_before,
                antigen_sequences, PendingQueue, history_path, reconciled,
                elim_arg, elim_pc, elim_kept, elim_ret,
                db_recs, db_rels, db_pc, db_studies, appended, db_call,
                logVars, precVars, detVars, loopVars, workerVars>>

\* quota_not_run is None: one call of study_has_been_run on the whole list.
CheckAll ==
    /\ shr_pc = "called"
    /\ quota_not_run = QuitNone
    /\ LET returned_run == study_has_been_run(to_check, QuitNone, <<>>)
       IN  IF returned_run.raised
           THEN /\ shr_pc' = "raised"
                /\ UNCHANGED <<to_check, num_still_needed, studies_exist>>
           ELSE /\ studies_exist' = returned_run.ret
                /\ shr_pc' = "returned"
                /\ UNCHANGED <<to_check, num_still_needed>>
    /\ UNCHANGED quotaFixed

\* One round of the while loop: the next batch is checked with
\* quit_at=num_still_needed and its list is appended.
CheckBatch ==
    /\ shr_pc = "called"
    /\ quota_not_run # QuitNone
    /\ Len(to_check) > 0 /\ num_still_needed > 0
    /\ LET batch == Batch(quota_not_run)
           check_studies == IF batch >= Len(to_check) THEN to_check
                            ELSE SubSeq(to_check, 1, batch)
           returned_run == study_has_been_run(check_studies, num_still_needed, <<>>)
       IN  IF returned_run.raised
           THEN /\ shr_pc' = "raised"
                /\ UNCHANGED <<to_check, num_still_needed, studies_exist>>
           ELSE /\ to_check' = SubSeq(to_check, Len(check_studies) + 1, Len(to_check))
                /\ num_still_needed' = num_still_needed - CountFalse(returned_run.ret)
                /\ studies_exist' = studies_exist \o returned_run.ret
                /\ UNCHANGED shr_pc
    /\ UNCHANGED quotaFixed

\* The loop is over: studies_exist is returned.
QuotaReturn ==
    /\ shr_pc = "called"
    /\ quota_not_run # QuitNone
    /\ ~(Len(to_check) > 0 /\ num_still_needed > 0)
    /\ shr_pc' = "returned"
    /\ UNCHANGED <<to_check, num_still_needed, studies_exist>>
    /\ UNCHANGED quotaFixed

InitQuota ==
    /\ LogInit
    /\ PrecIdle
    /\ QuotaStart
    /\ LoopIdle
    /\ WorkerIdle

NextQuota ==
    \/ CheckAll
    \/ CheckBatch
    \/ QuotaReturn

SpecQuota == InitQuota /\ [][NextQuota]_vars

\* ------------------------------------------------------------------ C35
\* The studies before the i-th that the returned list gives as not run.
NotRunBefore(i) == Cardinality({ j \in 1..(i - 1) : studies_exist[j] = "False" })

\* C35: the list studies_have_been_run returns for a quota has one element
\* for each proposed study, in order, and the element is None exactly for
\* the studies that come after quota_not_run studies found not run.
C35_QuotaListShape ==
    (shr_pc = "returned" /\ quota_not_run # QuitNone) =>
        /\ Len(studies_exist) = Len(study_recs)
        /\ \A i \in DOMAIN studies_exist :
              studies_exist[i] = None <=> NotRunBefore(i) >= quota_not_run

\* ============================================================ update_pareto
\* The sequences a pareto set is made of, the longest list handed to one call
\* and the number of calls followed.
ParetoSequences == {"cat", "rat", "bat"}
MaxPareto == 2
MaxUpdates == 2

\* str(uuid.uuid4())[:6] + "_pareto"
ParetoIds == { ToString(n) \o "_pareto" : n \in 0..Cardinality(ParetoSequences) }

\* The stub update_pareto makes for a sequence.
ParetoStub(id, pareto_sequence, now) ==
    [id |-> id, type |-> "pareto_stub", status |-> "FINISHED",
     study_type |-> "pareto_stub", ANTIGEN_SEQUENCE |-> pareto_sequence,
     timestamp |-> now]

\* Records of another type, one of them with a sequence of the pareto set.
OtherRecords ==
    { [id |-> "e1", type |-> "request", status |-> "FINISHED", study_type |-> "t1",
       ANTIGEN_SEQUENCE |-> "cat", timestamp |-> 0],
      [id |-> "e1_result", type |-> "result", status |-> "FINISHED",
       study_type |-> "t1", ANTIGEN_SEQUENCE |-> Absent, timestamp |-> 0] }

\* dao.recs.get_all_of_type("pareto_stub")
existing_pareto_recs(stored) == { rec \in stored : rec.type = "pareto_stub" }

existing_pareto_set(stored) ==
    { rec.ANTIGEN_SEQUENCE : rec \in existing_pareto_recs(stored) }

\* sequence_to_pareto_id_map[x]: the id of a stub that holds the sequence.
sequence_to_pareto_id_map(stored, x) ==
    (CHOOSE rec \in existing_pareto_recs(stored) : rec.ANTIGEN_SEQUENCE = x).id

\* The store with its stubs as they were, the new ones added, none deleted.
UpdateParetoDeletesNone(stored, sequences, new_ids, now) ==
    stored \cup { ParetoStub(new_ids[x], x, now) :
                    x \in Range(sequences) \ existing_pareto_set(stored) }

\* update_pareto(dao, antigen_sequences): a stub is inserted for each sequence
\* of the list that no stub holds, then the stubs of the sequences that are
\* not in the list are deleted by id.
update_pareto(stored, sequences, new_ids, now) ==
    LET new_pareto_set == Range(sequences)
        pareto_to_add == new_pareto_set \ existing_pareto_set(stored)
        pareto_to_remove == existing_pareto_set(stored) \ new_pareto_set
        deleted == { sequence_to_pareto_id_map(stored, x) : x \in pareto_to_remove }
    IN  { rec \in stored \cup { ParetoStub(new_ids[x], x, now) : x \in pareto_to_add } :
            rec.id \notin deleted }

\* A store without stubs, with or without records of another type.
ParetoStart ==
    /\ pareto_recs \in SUBSET OtherRecords
    /\ pareto_time = 0
    /\ pareto_before = pareto_recs
    /\ antigen_sequences = <<>>
    /\ CallsIdle /\ QuotaIdle

\* One call, with any list of sequences; the uuid of each new stub is one no
\* record of the store has, and the clock has moved on since the last call.
UpdatePareto ==
    /\ pareto_time < MaxUpdates
    /\ \E sequences \in UNION { [1..n -> ParetoSequences] : n \in 0..MaxPareto } :
       \E new_ids \in [Range(sequences) \ existing_pareto_set(pareto_recs)
                          -> ParetoIds \ { rec.id : rec \in pareto_recs }] :
          /\ \A x, y \in DOMAIN new_ids : new_ids[x] = new_ids[y] => x = y
          /\ pareto_recs' = update_pareto(pareto_recs, sequences, new_ids, pareto_time + 1)
          /\ antigen_sequences' = sequences
    /\ pareto_before' = pareto_recs
    /\ pareto_time' = pareto_time + 1
    /\ UNCHANGED <<study_recs, to_check, quota_not_run, num_still_needed,
                   studies_exist, shr_pc, PendingQueue, history_path, reconciled,
                   elim_arg, elim_pc, elim_kept, elim_ret,
                   db_recs, db_rels, db_pc, db_studies, appended, db_call>>
    /\ UNCHANGED <<logVars, precVars, detVars, loopVars, workerVars>>

InitPareto ==
    /\ LogInit
    /\ PrecIdle
    /\ DetIdle
    /\ LoopIdle
    /\ WorkerIdle
    /\ ParetoStart

NextPareto == UpdatePareto

SpecPareto == InitPareto /\ [][NextPareto]_vars

\* ------------------------------------------------------------------ C37
\* C37: after any sequence of update_pareto calls the sequences held by
\* pareto stubs are those of the last call, one stub for each; a stub whose
\* sequence the last call kept is the record it was before that call, id and
\* timestamp included; and the records of another type are as they were.
C37_StubsFollowLastCall ==
    pareto_time > 0 =>
        /\ existing_pareto_set(pareto_recs) = Range(antigen_sequences)
        /\ \A a, b \in existing_pareto_recs(pareto_recs) :
              a.ANTIGEN_SEQUENCE = b.ANTIGEN_SEQUENCE => a = b
        /\ \A rec \in existing_pareto_recs(pareto_before) :
              rec.ANTIGEN_SEQUENCE \in Range(antigen_sequences) => rec \in pareto_recs
        /\ pareto_recs \ existing_pareto_recs(pareto_recs)
               = pareto_before \ existing_pareto_recs(pareto_before)

\* A call has kept a stub of an earlier call, deleted another and added a
\* third, in a store that holds a request with a sequence of the pareto set.
C37_Witness ==
    /\ pareto_time > 1
    /\ \E rec \in existing_pareto_recs(pareto_recs) :
          rec \in pareto_before /\ rec.timestamp < pareto_time
    /\ \E rec \in existing_pareto_recs(pareto_before) : rec \notin pareto_recs
    /\ \E rec \in existing_pareto_recs(pareto_recs) : rec.timestamp = pareto_time
    /\ \E rec \in pareto_recs : rec.type = "request"

\* ------------------------------------------------------------------ C38
\* The loop was ended by the TypeError of cancel_child_maestros: a sentinel
\* is still there with its lock acquired.
RaisedByCancel ==
    \/ cancel_lock = "acquired" /\ cancel_lock_path
    \/ termination_lock = "acquired" /\ term_lock_path

\* C38: no timeout of a lock ends the loop, whether it is the lock of an
\* inbox file, of a results.yaml, of a history file or of a sentinel; and
\* every study launched is in running_maestros until monitor_and_log has
\* made its terminal entry.
C38_TimeoutKeepsPolling ==
    /\ loop_pc = "raised" => RaisedByCancel
    /\ \A r \in WorkerRids : launches[r] > pops[r] => InRunning(r)

\* ------------------------------------------------------------------ C39
\* C39: when the loop has ended, by the termination test or per terminate
\* sentinel, every destination that has entries pending has had a last
\* commit of them attempted.
C39_FinalCommitAttempt ==
    loop_pc \in {"terminated", "terminated per signal"} =>
        \A hf \in Range(HistoryDests) :
            PendingOf(pending_logs, hf) # <<>> => hf \in drained

\* The cycle under fairness: the daemon goes on with its cycle as long as it
\* has a step to take, where a lock that is not acquired times out and the
\* step is over, and a process that runs exits in the end. The decision
\* study places a request once and no more.
FairCycle ==
    /\ SpecCycle
    /\ WF_vars(CycleStep)
    /\ WF_vars(ProcessExits)

\* ------------------------------------------------------------------ C36
\* C36: when every process launched exits in the end, the decision study
\* stops placing requests and no lock blocks for ever, the loop ends by its
\* termination test.
C36_LoopTerminates == <>(loop_pc = "terminated")

====
